---- MODULE Spec2Model ----
(***************************************************************************)
(* GuideScope (medical AI prompt builder): the template engine, the query  *)
(* deriver and the configuration codec of lib/template.ts                  *)
(* (src/unnamed/part_000).                                                 *)
(*                                                                         *)
(* Text.  A JavaScript string is a sequence of units.  A unit is a single  *)
(* character ("a", "\n", "$", ...) or one indivisible spelled-out passage: *)
(* a block marker, a placeholder token, a fixed passage of the template    *)
(* ("L22-23" is the text of source lines 22..23), or a fixed Japanese      *)
(* phrase written in ASCII (the module's strings are ASCII only).  A fixed *)
(* passage starts and ends with a non-blank character and holds no run of  *)
(* three newlines, no marker and no placeholder.                           *)
(*                                                                         *)
(* Values.  A JavaScript value is a record [t, v]: t its type, v its       *)
(* payload.  An object is the sequence of its own members in insertion     *)
(* order, as JSON.parse builds it and JSON.stringify walks it.             *)
(***************************************************************************)
EXTENDS Integers, Sequences, FiniteSets

VARIABLES
    config,   \* the configuration object the UI holds
    text,     \* the string handed to, or produced by, the codec
    op,       \* the operation that ran last
    out       \* what it returned: [ok |-> TRUE, v |-> value], or Thrown

vars == <<config, text, op, out>>

----------------------------------------------------------------------------
(* JavaScript values *)

Undefined == [t |-> "undefined", v |-> <<>>]
Null      == [t |-> "null", v |-> <<>>]
Str(s)    == [t |-> "string", v |-> s]
Bool(b)   == [t |-> "boolean", v |-> b]
Num(n)    == [t |-> "number", v |-> n]
Arr(xs)   == [t |-> "array", v |-> xs]
Obj(ms)   == [t |-> "object", v |-> ms]

Member(k, x) == [k |-> k, v |-> x]

Return(x) == [ok |-> TRUE, v |-> x]
Thrown    == [ok |-> FALSE, v |-> <<>>]

\* A divide-and-conquer concatenation of ss[lo..hi].
RECURSIVE FlattenRange(_, _, _)
FlattenRange(ss, lo, hi) ==
    IF lo > hi THEN <<>>
    ELSE IF lo = hi THEN ss[lo]
    ELSE LET mid == (lo + hi) \div 2
         IN  FlattenRange(ss, lo, mid) \o FlattenRange(ss, mid + 1, hi)

Flatten(ss) == FlattenRange(ss, 1, Len(ss))

\* slice with its end ignored: slice(from)
SliceToTheEnd(s, from, to) == SubSeq(s, from + 1, Len(s))

\* Array.prototype.slice(from, to), 0 <= from <= to
Slice(s, from, to) ==
    SubSeq(s, from + 1, IF to < Len(s) THEN to ELSE Len(s))

\* Array.prototype.join over strings
Join(ss, sep) ==
    Flatten([i \in 1..Len(ss) |-> IF i = 1 THEN ss[i] ELSE sep \o ss[i]])

HasKey(o, k) == \E i \in 1..Len(o.v) : o.v[i].k = k

\* o.k for a value that is neither null nor undefined
Get(o, k) ==
    IF o.t = "object" /\ HasKey(o, k)
    THEN o.v[CHOOSE i \in 1..Len(o.v) : o.v[i].k = k].v
    ELSE IF o.t \in {"string", "array"} /\ k = <<"l", "e", "n", "g", "t", "h">>
    THEN Num(Len(o.v))
    ELSE Undefined

Nullish(x) == x.t \in {"undefined", "null"}

\* ToBoolean
Truthy(x) ==
    CASE x.t = "boolean" -> x.v
      [] x.t = "string"  -> x.v # <<>>
      [] x.t = "number"  -> x.v # 0
      [] x.t \in {"undefined", "null"} -> FALSE
      [] OTHER -> TRUE

\* Number::toString of a natural number
RECURSIVE NatToString(_)
NatToString(n) ==
    LET digit == <<"0", "1", "2", "3", "4", "5", "6", "7", "8", "9">>[(n % 10) + 1]
    IN  IF n < 10 THEN <<digit>>
        ELSE NatToString(n \div 10) \o <<digit>>

\* ToString
RECURSIVE ToString(_)
ToString(x) ==
    CASE x.t = "string"    -> x.v
      [] x.t = "undefined" -> <<"u", "n", "d", "e", "f", "i", "n", "e", "d">>
      [] x.t = "null"      -> <<"n", "u", "l", "l">>
      [] x.t = "boolean"   -> IF x.v THEN <<"t", "r", "u", "e">>
                              ELSE <<"f", "a", "l", "s", "e">>
      [] x.t = "number"    -> IF x.v < 0 THEN <<"-">> \o NatToString(-x.v)
                              ELSE NatToString(x.v)
      [] x.t = "array"     ->
            Join([i \in 1..Len(x.v) |->
                    IF Nullish(x.v[i]) THEN <<>> ELSE ToString(x.v[i])], <<",">>)
      [] OTHER -> <<"[", "o", "b", "j", "e", "c", "t", " ",
                    "O", "b", "j", "e", "c", "t", "]">>

\* The positions of a text, in order.
Positions(str) == [p \in 1..Len(str) |-> p]

\* s without the units of the set at its start and at its end
Strip(s, units) ==
    LET keep == SelectSeq(Positions(s), LAMBDA p : s[p] \notin units)
    IN  IF keep = <<>> THEN <<>> ELSE SubSeq(s, keep[1], keep[Len(keep)])

\* String.prototype.trim
Trim(s) == Strip(s, {" ", "\n", "\t", "\r"})

----------------------------------------------------------------------------
(* Characters.  A character unit stands for one UTF-16 code unit.  Latin1  *)
(* lists the units of the code units 0..255 in order; "<60>" is the grave  *)
(* accent, which a string of this language cannot hold.                    *)

Latin1 ==
    << "<00>", "<01>", "<02>", "<03>", "<04>", "<05>", "<06>", "<07>",
       "<08>", "\t", "\n", "<0B>", "<0C>", "\r", "<0E>", "<0F>",
       "<10>", "<11>", "<12>", "<13>", "<14>", "<15>", "<16>", "<17>",
       "<18>", "<19>", "<1A>", "<1B>", "<1C>", "<1D>", "<1E>", "<1F>",
       " ", "!", "\"", "#", "$", "%", "&", "'",
       "(", ")", "*", "+", ",", "-", ".", "/",
       "0", "1", "2", "3", "4", "5", "6", "7",
       "8", "9", ":", ";", "<", "=", ">", "?",
       "@", "A", "B", "C", "D", "E", "F", "G",
       "H", "I", "J", "K", "L", "M", "N", "O",
       "P", "Q", "R", "S", "T", "U", "V", "W",
       "X", "Y", "Z", "[", "\\", "]", "^", "_",
       "<60>", "a", "b", "c", "d", "e", "f", "g",
       "h", "i", "j", "k", "l", "m", "n", "o",
       "p", "q", "r", "s", "t", "u", "v", "w",
       "x", "y", "z", "{", "|", "}", "~", "<7F>",
       "<80>", "<81>", "<82>", "<83>", "<84>", "<85>", "<86>", "<87>",
       "<88>", "<89>", "<8A>", "<8B>", "<8C>", "<8D>", "<8E>", "<8F>",
       "<90>", "<91>", "<92>", "<93>", "<94>", "<95>", "<96>", "<97>",
       "<98>", "<99>", "<9A>", "<9B>", "<9C>", "<9D>", "<9E>", "<9F>",
       "<A0>", "<A1>", "<A2>", "<A3>", "<A4>", "<A5>", "<A6>", "<A7>",
       "<A8>", "<A9>", "<AA>", "<AB>", "<AC>", "<AD>", "<AE>", "<AF>",
       "<B0>", "<B1>", "<B2>", "<B3>", "<B4>", "<B5>", "<B6>", "<B7>",
       "<B8>", "<B9>", "<BA>", "<BB>", "<BC>", "<BD>", "<BE>", "<BF>",
       "<C0>", "<C1>", "<C2>", "<C3>", "<C4>", "<C5>", "<C6>", "<C7>",
       "<C8>", "<C9>", "<CA>", "<CB>", "<CC>", "<CD>", "<CE>", "<CF>",
       "<D0>", "<D1>", "<D2>", "<D3>", "<D4>", "<D5>", "<D6>", "<D7>",
       "<D8>", "<D9>", "<DA>", "<DB>", "<DC>", "<DD>", "<DE>", "<DF>",
       "<E0>", "<E1>", "<E2>", "<E3>", "<E4>", "<E5>", "<E6>", "<E7>",
       "<E8>", "<E9>", "<EA>", "<EB>", "<EC>", "<ED>", "<EE>", "<EF>",
       "<F0>", "<F1>", "<F2>", "<F3>", "<F4>", "<F5>", "<F6>", "<F7>",
       "<F8>", "<F9>", "<FA>", "<FB>", "<FC>", "<FD>", "<FE>", "<FF>" >>
GRAVE == "<60>"

\* Units of code units above 255: the ideographic comma, the middle dot, a
\* surrogate pair and the replacement character.
Wide == << <<"<U+3001>", 12289>>, <<"<U+30FB>", 12539>>,
           <<"<U+D83D>", 55357>>, <<"<U+DE00>", 56832>>,
           <<"<U+FFFD>", 65533>> >>

\* The code unit of a character unit
CodeTable ==
    [u \in {Latin1[i] : i \in 1..Len(Latin1)}
           \cup {Wide[i][1] : i \in 1..Len(Wide)} |->
        IF \E i \in 1..Len(Latin1) : Latin1[i] = u
        THEN (CHOOSE i \in 1..Len(Latin1) : Latin1[i] = u) - 1
        ELSE Wide[CHOOSE i \in 1..Len(Wide) : Wide[i][1] = u][2]]

\* charCodeAt
CodeUnit(u) == CodeTable[u]

\* String.fromCharCode; "<U+....>" is any other code unit above 255
Chr(n) ==
    IF n < Len(Latin1) THEN Latin1[n + 1]
    ELSE IF \E i \in 1..Len(Wide) : Wide[i][2] = n
    THEN Wide[CHOOSE i \in 1..Len(Wide) : Wide[i][2] = n][1]
    ELSE "<U+....>"

IsHighSurrogate(n) == 55296 <= n /\ n <= 56319
IsLowSurrogate(n)  == 56320 <= n /\ n <= 57343

\* The unit at p is a surrogate without its partner
LoneSurrogateAt(s, p) ==
    /\ s[p] \in DOMAIN CodeTable
    /\ LET c == CodeUnit(s[p])
       IN  \/ /\ IsHighSurrogate(c)
              /\ ~(p < Len(s) /\ s[p + 1] \in DOMAIN CodeTable
                   /\ IsLowSurrogate(CodeUnit(s[p + 1])))
           \/ /\ IsLowSurrogate(c)
              /\ ~(p > 1 /\ s[p - 1] \in DOMAIN CodeTable
                   /\ IsHighSurrogate(CodeUnit(s[p - 1])))

HexDigits == <<"0", "1", "2", "3", "4", "5", "6", "7",
               "8", "9", "A", "B", "C", "D", "E", "F">>
LowerHex  == <<"0", "1", "2", "3", "4", "5", "6", "7",
               "8", "9", "a", "b", "c", "d", "e", "f">>

\* The value of a hexadecimal digit
HexTable ==
    [u \in {HexDigits[i] : i \in 1..16} \cup {LowerHex[i] : i \in 1..16} |->
        (CHOOSE i \in 1..16 : HexDigits[i] = u \/ LowerHex[i] = u) - 1]

HexValue(u) == HexTable[u]

\* The byte written %XY at positions p..p+2 of s
ByteAt(s, p) == (16 * HexValue(s[p + 1])) + HexValue(s[p + 2])

\* s holds a %XY escape at position p
EscapeAt(s, p) ==
    /\ p + 2 <= Len(s)
    /\ s[p] = "%"
    /\ s[p + 1] \in DOMAIN HexTable
    /\ s[p + 2] \in DOMAIN HexTable

----------------------------------------------------------------------------
(* encodeURIComponent and decodeURIComponent *)

\* uriUnescaped: the characters encodeURIComponent leaves as they are
IsUnreserved(u) ==
    LET n == CodeUnit(u)
    IN  \/ 48 <= n /\ n <= 57
        \/ 65 <= n /\ n <= 90
        \/ 97 <= n /\ n <= 122
        \/ u \in {"-", "_", ".", "!", "~", "*", "'", "(", ")"}

\* The UTF-8 bytes of a code point
Utf8(cp) ==
    IF cp < 128 THEN <<cp>>
    ELSE IF cp < 2048 THEN <<192 + (cp \div 64), 128 + (cp % 64)>>
    ELSE IF cp < 65536
    THEN <<224 + (cp \div 4096), 128 + ((cp \div 64) % 64), 128 + (cp % 64)>>
    ELSE <<240 + (cp \div 262144), 128 + ((cp \div 4096) % 64),
           128 + ((cp \div 64) % 64), 128 + (cp % 64)>>

\* The bytes written as %XY escapes
PercentBytes(bs) ==
    Flatten([i \in 1..Len(bs) |->
               <<"%", HexDigits[(bs[i] \div 16) + 1], HexDigits[(bs[i] % 16) + 1]>>])

\* encodeURIComponent(s): the encoded text, or Thrown (URIError) when a
\* surrogate has no partner; a low surrogate is written with the high
\* surrogate before it
encodeURIComponent(s) ==
    LET encodedAt(p) ==
            LET c == CodeUnit(s[p])
            IN  IF IsUnreserved(s[p]) THEN <<s[p]>>
                ELSE IF IsLowSurrogate(c) THEN <<>>
                ELSE IF IsHighSurrogate(c)
                THEN PercentBytes(Utf8(65536 + ((c - 55296) * 1024)
                                       + (CodeUnit(s[p + 1]) - 56320)))
                ELSE PercentBytes(Utf8(c))
    IN  IF \E p \in 1..Len(s) : LoneSurrogateAt(s, p) THEN Thrown
        ELSE Return(Flatten([p \in 1..Len(s) |-> encodedAt(p)]))

\* The number of bytes of the UTF-8 sequence a byte starts; 0 if it starts none
Utf8Length(b) ==
    IF b < 128 THEN 1
    ELSE IF 194 <= b /\ b <= 223 THEN 2
    ELSE IF 224 <= b /\ b <= 239 THEN 3
    ELSE IF 240 <= b /\ b <= 244 THEN 4
    ELSE 0

\* The escape sequence at p: [ok, v, next].  It is malformed when the
\* escape is cut short, a continuation byte is missing, or the bytes are
\* no UTF-8 encoding of a code point (overlong, a surrogate, too large).
DecodeEscape(s, p) ==
    IF ~EscapeAt(s, p) THEN [ok |-> FALSE, v |-> <<>>, next |-> p]
    ELSE
    LET b == ByteAt(s, p)
        n == Utf8Length(b)
        cont(k) == /\ EscapeAt(s, p + (3 * k))
                   /\ ByteAt(s, p + (3 * k)) \div 64 = 2
        low(k) == ByteAt(s, p + (3 * k)) % 64
        cp == CASE n = 1 -> b
                [] n = 2 -> ((b % 32) * 64) + low(1)
                [] n = 3 -> ((b % 16) * 4096) + (low(1) * 64) + low(2)
                [] OTHER -> ((b % 8) * 262144) + (low(1) * 4096)
                            + (low(2) * 64) + low(3)
        wellFormed ==
            /\ n > 0
            /\ \A k \in 1..(n - 1) : cont(k)
            /\ n = 3 => cp >= 2048 /\ ~(55296 <= cp /\ cp <= 57343)
            /\ n = 4 => cp >= 65536 /\ cp <= 1114111
    IN  IF ~wellFormed THEN [ok |-> FALSE, v |-> <<>>, next |-> p]
        ELSE [ok |-> TRUE,
              v |-> IF cp < 65536 THEN <<Chr(cp)>>
                    ELSE <<Chr(55296 + ((cp - 65536) \div 1024)),
                           Chr(56320 + ((cp - 65536) % 1024))>>,
              next |-> p + (3 * n)]

\* The number of escapes a UTF-8 decoder reads as one sequence at p: the
\* lead byte and the continuation bytes in range that follow it
SequenceLength(s, p) ==
    LET b == ByteAt(s, p)
        n == Utf8Length(b)
        inRange(k, c) ==
            /\ 128 <= c /\ c <= 191
            /\ (k = 1 /\ b = 224) => c >= 160
            /\ (k = 1 /\ b = 237) => c <= 159
            /\ (k = 1 /\ b = 240) => c >= 144
            /\ (k = 1 /\ b = 244) => c <= 143
        good(k) == \A j \in 1..k : /\ EscapeAt(s, p + (3 * j))
                                   /\ inRange(j, ByteAt(s, p + (3 * j)))
    IN  IF n = 0 THEN 1
        ELSE 1 + (CHOOSE k \in 0..(n - 1) :
                      good(k) /\ (k < n - 1 => ~good(k + 1)))

\* The escape at p is a continuation byte of a sequence that starts before
Absorbed(s, p) ==
    \E k \in 1..3 : /\ ByteAt(s, p) \div 64 = 2
                    /\ p - (3 * k) >= 1
                    /\ EscapeAt(s, p - (3 * k))
                    /\ SequenceLength(s, p - (3 * k)) > k

\* The unit at p is a hexadecimal digit of an escape
InEscape(s, p) ==
    \/ p > 1 /\ EscapeAt(s, p - 1)
    \/ p > 2 /\ EscapeAt(s, p - 2)

\* decodeURIComponent(s): the decoded text, or Thrown (URIError) when a "%"
\* starts no escape or the escapes are no UTF-8
decodeURIComponent(s) ==
    LET decodedAt(p) ==
            IF EscapeAt(s, p)
            THEN (IF Absorbed(s, p) THEN <<>> ELSE DecodeEscape(s, p).v)
            ELSE IF InEscape(s, p) THEN <<>>
            ELSE <<s[p]>>
    IN  IF \E p \in 1..Len(s) :
              /\ s[p] = "%"
              /\ ~(EscapeAt(s, p) /\ (Absorbed(s, p) \/ DecodeEscape(s, p).ok))
        THEN Thrown
        ELSE Return(Flatten([p \in 1..Len(s) |-> decodedAt(p)]))

----------------------------------------------------------------------------
(* btoa and atob *)

Base64Alphabet ==
    << "A", "B", "C", "D", "E", "F", "G", "H", "I", "J", "K", "L", "M",
       "N", "O", "P", "Q", "R", "S", "T", "U", "V", "W", "X", "Y", "Z",
       "a", "b", "c", "d", "e", "f", "g", "h", "i", "j", "k", "l", "m",
       "n", "o", "p", "q", "r", "s", "t", "u", "v", "w", "x", "y", "z",
       "0", "1", "2", "3", "4", "5", "6", "7", "8", "9", "+", "/" >>

\* The six bits of a character of the alphabet
Base64Index ==
    [u \in {Base64Alphabet[i] : i \in 1..64} |->
        (CHOOSE i \in 1..64 : Base64Alphabet[i] = u) - 1]

\* btoa(s): the base64 text of the bytes of s, padded with "="; Thrown
\* (InvalidCharacterError) when a code unit is above 255
btoa(s) ==
    IF \E p \in 1..Len(s) : CodeUnit(s[p]) > 255 THEN Thrown
    ELSE
    LET n == Len(s)
        byte(i) == IF i <= n THEN CodeUnit(s[i]) ELSE 0
        sextet(g, k) ==
            CASE k = 0 -> byte((3 * g) + 1) \div 4
              [] k = 1 -> ((byte((3 * g) + 1) % 4) * 16) + (byte((3 * g) + 2) \div 16)
              [] k = 2 -> ((byte((3 * g) + 2) % 16) * 4) + (byte((3 * g) + 3) \div 64)
              [] OTHER -> byte((3 * g) + 3) % 64
    IN  Return([j \in 1..(4 * ((n + 2) \div 3)) |->
                  LET g == (j - 1) \div 4
                      k == (j - 1) % 4
                  IN  IF (3 * g) + k > n THEN "="
                      ELSE Base64Alphabet[sextet(g, k) + 1]])

\* atob(s), the forgiving base64 decoding: ASCII whitespace is dropped,
\* then one or two "=" ending a text of a multiple of four characters;
\* Thrown (InvalidCharacterError) when the length is 1 modulo 4 or a
\* character is outside the alphabet; left-over bits are discarded
atob(s) ==
    LET unpadded(d) ==
            IF Len(d) % 4 = 0 /\ Len(d) > 0 /\ d[Len(d)] = "="
            THEN SubSeq(d, 1, Len(d) - (IF d[Len(d) - 1] = "=" THEN 2 ELSE 1))
            ELSE d
        decoded(data) ==
            LET n == Len(data)
                six(i) == IF i <= n THEN Base64Index[data[i]] ELSE 0
                byte(g, k) ==
                    CASE k = 0 -> (six((4 * g) + 1) * 4) + (six((4 * g) + 2) \div 16)
                      [] k = 1 -> ((six((4 * g) + 2) % 16) * 16)
                                  + (six((4 * g) + 3) \div 4)
                      [] OTHER -> ((six((4 * g) + 3) % 4) * 64) + six((4 * g) + 4)
            IN  IF n % 4 = 1 \/ \E i \in 1..n : data[i] \notin DOMAIN Base64Index
                THEN Thrown
                ELSE Return([j \in 1..((n * 3) \div 4) |->
                                Chr(byte((j - 1) \div 3, (j - 1) % 3))])
    IN  decoded(unpadded(SelectSeq(s, LAMBDA u :
                                      u \notin {" ", "\t", "\n", "<0C>", "\r"})))

----------------------------------------------------------------------------
(* Property names *)

\* The property names the code reads, as texts: those of AppConfig and of a
\* toggle, then those of a preset, of ExtendedSettings and of a settings
\* file
Key ==
    [ length |-> <<"l", "e", "n", "g", "t", "h">>,
      dateToday |-> <<"d", "a", "t", "e", "T", "o", "d", "a", "y">>,
      query |-> <<"q", "u", "e", "r", "y">>,
      scope |-> <<"s", "c", "o", "p", "e">>,
      audiences |-> <<"a", "u", "d", "i", "e", "n", "c", "e", "s">>,
      priorityDomains |-> <<"p", "r", "i", "o", "r", "i", "t", "y", "D", "o",
            "m", "a", "i", "n", "s">>,
      keywordChips |-> <<"k", "e", "y", "w", "o", "r", "d", "C", "h", "i",
            "p", "s">>,
      customKeywords |-> <<"c", "u", "s", "t", "o", "m", "K", "e", "y", "w",
            "o", "r", "d", "s">>,
      excludeKeywords |-> <<"e", "x", "c", "l", "u", "d", "e", "K", "e", "y",
            "w", "o", "r", "d", "s">>,
      categories |-> <<"c", "a", "t", "e", "g", "o", "r", "i", "e", "s">>,
      activeTab |-> <<"a", "c", "t", "i", "v", "e", "T", "a", "b">>,
      eGovCrossReference |-> <<"e", "G", "o", "v", "C", "r", "o", "s", "s",
            "R", "e", "f", "e", "r", "e", "n", "c", "e">>,
      proofMode |-> <<"p", "r", "o", "o", "f", "M", "o", "d", "e">>,
      officialDomainPriority |-> <<"o", "f", "f", "i", "c", "i", "a", "l",
            "D", "o", "m", "a", "i", "n", "P", "r", "i", "o", "r", "i", "t",
            "y">>,
      siteOperator |-> <<"s", "i", "t", "e", "O", "p", "e", "r", "a", "t",
            "o", "r">>,
      name |-> <<"n", "a", "m", "e">>,
      enabled |-> <<"e", "n", "a", "b", "l", "e", "d">>,
      id |-> <<"i", "d">>,
      version |-> <<"v", "e", "r", "s", "i", "o", "n">>,
      template |-> <<"t", "e", "m", "p", "l", "a", "t", "e">>,
      search |-> <<"s", "e", "a", "r", "c", "h">>,
      output |-> <<"o", "u", "t", "p", "u", "t">>,
      ui |-> <<"u", "i">>,
      roleTitle |-> <<"r", "o", "l", "e", "T", "i", "t", "l", "e">>,
      disclaimers |-> <<"d", "i", "s", "c", "l", "a", "i", "m", "e", "r", "s">>,
      maxResults |-> <<"m", "a", "x", "R", "e", "s", "u", "l", "t", "s">>,
      useSiteOperator |-> <<"u", "s", "e", "S", "i", "t", "e", "O", "p", "e", "r", "a", "t", "o", "r">>,
      detailLevel |-> <<"d", "e", "t", "a", "i", "l", "L", "e", "v", "e", "l">>,
      theme |-> <<"t", "h", "e", "m", "e">>,
      extendedSettings |-> <<"e", "x", "t", "e", "n", "d", "e", "d", "S", "e", "t", "t", "i", "n", "g", "s">>,
      customPresets |-> <<"c", "u", "s", "t", "o", "m", "P", "r", "e", "s", "e", "t", "s">>,
      customDomains |-> <<"c", "u", "s", "t", "o", "m", "D", "o", "m", "a", "i", "n", "s">>,
      customScopes |-> <<"c", "u", "s", "t", "o", "m", "S", "c", "o", "p", "e", "s">>,
      customAudiences |-> <<"c", "u", "s", "t", "o", "m", "A", "u", "d", "i", "e", "n", "c", "e", "s">> ]

----------------------------------------------------------------------------
(* Base template *)

EGOV_SECTION_BEGIN  == "EGOV_SECTION_BEGIN"
EGOV_SECTION_END    == "EGOV_SECTION_END"
PROOF_SECTION_BEGIN == "PROOF_SECTION_BEGIN"
PROOF_SECTION_END   == "PROOF_SECTION_END"

Markers == {EGOV_SECTION_BEGIN, EGOV_SECTION_END,
            PROOF_SECTION_BEGIN, PROOF_SECTION_END}

\* The passages enclosed by the marker pairs.
Passage == [eGov |-> "L75-83", proofTop |-> "L22-23", proofBottom |-> "L193-194"]

BASE_TEMPLATE ==
    << "L12-19", "\n", "\n", "PROOF_SECTION_BEGIN", "\n", "L22-23",
       "\n", "PROOF_SECTION_END", "\n", "\n", "L26-59", "\n",
       "[[PRIORITY_DOMAINS_LIST]]",
       "\n", "\n", "L62-72", "\n", "\n", "EGOV_SECTION_BEGIN", "\n",
       "L75-83", "\n", "EGOV_SECTION_END", "\n", "\n", "L86-93", "\n",
       "[[OPTIONAL_KEYWORDS_LIST]]", "\n", "L95-122", "[[DATE_TODAY]]",
       "L122-125", " ", "[[DATE_TODAY]]", "\n", "L126", " ", "[[QUERY]]",
       "\n", "L127", " ", "[[SCOPE]]", "\n", "L128-144", "\n",
       "[[CATEGORIES_LIST]]",
       "\n", "\n", "L147-164", " ", "[[DATE_TODAY]]", "\n", "L165",
       " ", "[[QUERY]]", "\n", "L166", " ", "[[SCOPE]]", "\n", "\n",
       "L168", "\n", "[[AUDIENCES_LIST]]", "\n", "\n", "L171", "\n",
       "[[PRIORITY_DOMAINS_LIST]]", "\n", "\n", "L174", "\n",
       "[[MUST_KEYWORDS_LIST]]",
       "\n", "\n", "L177", "\n", "[[OPTIONAL_KEYWORDS_LIST]]", "\n",
       "\n", "L180", "\n", "[[EXCLUDE_KEYWORDS_LIST]]", "\n", "\n",
       "L183-190", "\n", "\n", "PROOF_SECTION_BEGIN", "\n", "L193-194",
       "\n", "PROOF_SECTION_END" >>

\* Fixed phrases (their text is in the comment).
Phrase ==
    [ bullet        |-> "<U+30FB>",         \* the default prefix, a middle dot
      none          |-> "(nashi)",          \* (none), formatList's empty list
      notEntered    |-> "(minyuryoku)",     \* (not entered), an empty query
      notSpecified  |-> "(mishitei)",       \* (not specified), an empty scope
      scopeComma    |-> "<U+3001>",         \* the ideographic comma joining scope
      mustKeyword   |-> "3sho2-guideline",  \* the mandatory keyword
      fallbackQuery |-> "iryo-AI",          \* medical AI, the fallback term
      guideline     |-> "guideline",        \* the word guideline, in katakana
      latestVersion |-> "saishinban",       \* latest version
      domestic      |-> "kokunai" ]         \* domestic

----------------------------------------------------------------------------
(* Template generation *)

\* formatList without the line for the empty list
formatListNoSentinel(items, prefix) ==
    Join([i \in 1..Len(items) |-> prefix \o ToString(items[i])], <<"\n">>)

\* formatList(items, prefix) over an array of values
formatList(items, prefix) ==
    IF Len(items) = 0 THEN prefix \o <<Phrase.none>>
    ELSE Join([i \in 1..Len(items) |-> prefix \o ToString(items[i])], <<"\n">>)

\* GetSubstitution of String.prototype.replace for a pattern without capture
\* groups: in the replacement text, $$ is a dollar sign, $& the matched text,
\* $ and a grave accent the text before the match, $' the text after it; any other dollar
\* sign stands for itself.  The match is str[pos .. pos + Len(matched) - 1].
RECURSIVE GetSubstitution(_, _, _, _, _)
GetSubstitution(matched, str, pos, replacement, i) ==
    IF i > Len(replacement) THEN <<>>
    ELSE IF replacement[i] = "$" /\ i < Len(replacement)
              /\ replacement[i + 1] \in {"$", "&", GRAVE, "'"}
    THEN (CASE replacement[i + 1] = "$" -> <<"$">>
            [] replacement[i + 1] = "&" -> matched
            [] replacement[i + 1] = GRAVE -> SubSeq(str, 1, pos - 1)
            [] OTHER -> SubSeq(str, pos + Len(matched), Len(str)))
         \o GetSubstitution(matched, str, pos, replacement, i + 2)
    ELSE <<replacement[i]>>
         \o GetSubstitution(matched, str, pos, replacement, i + 1)

\* str.replace(/token/g, replacement): every occurrence of the token, each
\* substituted against the original text
RECURSIVE ReplaceFrom(_, _, _, _)
ReplaceFrom(str, token, replacement, from) ==
    LET at == SelectSeq(SubSeq(Positions(str), from, Len(str)),
                        LAMBDA p : str[p] = token)
    IN  IF at = <<>> THEN SubSeq(str, from, Len(str))
        ELSE SubSeq(str, from, at[1] - 1)
             \o GetSubstitution(<<token>>, str, at[1], replacement, 1)
             \o ReplaceFrom(str, token, replacement, at[1] + 1)

ReplaceAll(str, token, replacement) == ReplaceFrom(str, token, replacement, 1)

\* str.replace('token', replacement): the first occurrence only
ReplaceFirst(str, token, replacement) ==
    LET at == SelectSeq(Positions(str), LAMBDA p : str[p] = token)
    IN  IF at = <<>> THEN str
        ELSE SubSeq(str, 1, at[1] - 1)
             \o GetSubstitution(<<token>>, str, at[1], replacement, 1)
             \o SubSeq(str, at[1] + 1, Len(str))

\* str.replace(/BEGIN[\s\S]*?END/g, ''): scanning from `from`, the leftmost
\* BEGIN that has an END after it starts a match, which ends at the first
\* such END; the scan resumes after it.
RECURSIVE RemoveSpans(_, _, _, _)
RemoveSpans(str, begin, end, from) ==
    LET ends   == SelectSeq(Positions(str), LAMBDA q : str[q] = end)
        starts == SelectSeq(SubSeq(Positions(str), from, Len(str)),
                            LAMBDA p : /\ str[p] = begin
                                       /\ ends # <<>>
                                       /\ p < ends[Len(ends)])
    IN  IF starts = <<>> THEN SubSeq(str, from, Len(str))
        ELSE LET p == starts[1]
                 q == SelectSeq(ends, LAMBDA x : x > p)[1]
             IN  SubSeq(str, from, p - 1) \o RemoveSpans(str, begin, end, q + 1)

\* str.replace(/MARKER\n?/g, ''): every marker, with the newline after it
StripMarker(str, marker) ==
    LET kept == SelectSeq(Positions(str), LAMBDA p :
                    /\ str[p] # marker
                    /\ ~(str[p] = "\n" /\ p > 1 /\ str[p - 1] = marker))
    IN  [i \in 1..Len(kept) |-> str[kept[i]]]

\* The same without the g flag: only the first run is collapsed.
CollapseFirstRunOnly(str) ==
    LET runs == SelectSeq(Positions(str), LAMBDA p :
                    /\ str[p] = "\n"
                    /\ p > 2
                    /\ str[p - 1] = "\n"
                    /\ str[p - 2] = "\n")
        stop == IF runs = <<>> THEN 0
                ELSE SelectSeq(SubSeq(Positions(str), runs[1], Len(str)),
                               LAMBDA p : str[p] # "\n")
        last == IF runs = <<>> THEN 0
                ELSE IF stop = <<>> THEN Len(str) ELSE stop[1] - 1
    IN  IF runs = <<>> THEN str
        ELSE SubSeq(str, 1, runs[1] - 1) \o SubSeq(str, last + 1, Len(str))

\* str.replace(/\n{3,}/g, '\n\n'): of a run of newlines, the first two stay
CollapseNewlines(str) ==
    LET kept == SelectSeq(Positions(str), LAMBDA p :
                    ~(/\ str[p] = "\n"
                      /\ p > 2
                      /\ str[p - 1] = "\n"
                      /\ str[p - 2] = "\n"))
    IN  [i \in 1..Len(kept) |-> str[kept[i]]]

\* config.scope.join(...), formatList(items), xs.filter(...): what each
\* throws on.  A TypeError is raised by a property read of null or
\* undefined and by a call of a property that is no function.
IsArray(x) == x.t = "array"

\* formatList(items) raises: items.length of null/undefined, or items.map
\* of a value that is no array and whose length is not 0
formatListThrows(items) ==
    \/ Nullish(items)
    \/ /\ ~IsArray(items)
       /\ ~(Get(items, Key.length).t = "number" /\ Get(items, Key.length).v = 0)

\* formatList applied to any value (default prefix)
formatListOf(items) ==
    IF Get(items, Key.length).t = "number" /\ Get(items, Key.length).v = 0
    THEN <<Phrase.bullet, Phrase.none>>
    ELSE formatList(items.v, <<Phrase.bullet>>)

\* xs.filter(k => k.enabled).map(k => k.name)
enabledNames(xs) ==
    LET on == SelectSeq(xs, LAMBDA k : Truthy(Get(k, Key.enabled)))
    IN  [i \in 1..Len(on) |-> Get(on[i], Key.name)]

\* xs.filter(k => k.enabled) raises
enabledThrows(xs) ==
    \/ ~IsArray(xs)
    \/ \E i \in 1..Len(xs.v) : Nullish(xs.v[i])

\* xs.filter(k => k.trim())
nonBlank(xs) == SelectSeq(xs, LAMBDA k : Trim(k.v) # <<>>)

\* xs.filter(k => k.trim()) raises
nonBlankThrows(xs) ==
    \/ ~IsArray(xs)
    \/ \E i \in 1..Len(xs.v) : xs.v[i].t # "string"

generatePromptThrows(c) ==
    \/ ~IsArray(Get(c, Key.scope))
    \/ formatListThrows(Get(c, Key.audiences))
    \/ formatListThrows(Get(c, Key.priorityDomains))
    \/ enabledThrows(Get(c, Key.keywordChips))
    \/ nonBlankThrows(Get(c, Key.customKeywords))
    \/ nonBlankThrows(Get(c, Key.excludeKeywords))
    \/ enabledThrows(Get(c, Key.categories))

\* x || fallback, as a string
OrElse(x, fallback) == IF Truthy(x) THEN ToString(x) ELSE fallback

\* Lines 209-258: the text after the placeholder substitutions
Substituted(c) ==
    LET \* Array.prototype.join: null and undefined join as empty text
        scope == Get(c, Key.scope).v
        scopeText ==
            Join([i \in 1..Len(scope) |->
                    IF Nullish(scope[i]) THEN <<>> ELSE ToString(scope[i])],
                 <<Phrase.scopeComma>>)
        optionalKeywords ==
            enabledNames(Get(c, Key.keywordChips).v)
            \o nonBlank(Get(c, Key.customKeywords).v)
        p1 == ReplaceAll(BASE_TEMPLATE, "[[DATE_TODAY]]",
                         ToString(Get(c, Key.dateToday)))
        p2 == ReplaceAll(p1, "[[QUERY]]",
                         OrElse(Get(c, Key.query), <<Phrase.notEntered>>))
        p3 == ReplaceAll(p2, "[[SCOPE]]",
                         OrElse(Str(scopeText), <<Phrase.notSpecified>>))
        p4 == ReplaceFirst(p3, "[[AUDIENCES_LIST]]",
                           formatListOf(Get(c, Key.audiences)))
        p5 == ReplaceAll(p4, "[[PRIORITY_DOMAINS_LIST]]",
                         formatListOf(Get(c, Key.priorityDomains)))
        p6 == ReplaceFirst(p5, "[[MUST_KEYWORDS_LIST]]",
                           formatList(<<Str(<<Phrase.mustKeyword>>)>>, <<Phrase.bullet>>))
        p7 == ReplaceAll(p6, "[[OPTIONAL_KEYWORDS_LIST]]",
                         formatList(optionalKeywords, <<Phrase.bullet>>))
        p8 == ReplaceFirst(p7, "[[EXCLUDE_KEYWORDS_LIST]]",
                           formatList(nonBlank(Get(c, Key.excludeKeywords).v),
                                      <<Phrase.bullet>>))
    IN  ReplaceFirst(p8, "[[CATEGORIES_LIST]]",
                     formatList(enabledNames(Get(c, Key.categories).v),
                                <<Phrase.bullet>>))

\* Lines 260-271: the e-Gov section
HandleEGov(c, prompt) ==
    IF ~Truthy(Get(c, Key.eGovCrossReference))
    THEN RemoveSpans(prompt, EGOV_SECTION_BEGIN, EGOV_SECTION_END, 1)
    ELSE StripMarker(StripMarker(prompt, EGOV_SECTION_BEGIN), EGOV_SECTION_END)

\* Lines 273-284: the proof section
HandleProof(c, prompt) ==
    IF ~Truthy(Get(c, Key.proofMode))
    THEN RemoveSpans(prompt, PROOF_SECTION_BEGIN, PROOF_SECTION_END, 1)
    ELSE StripMarker(StripMarker(prompt, PROOF_SECTION_BEGIN), PROOF_SECTION_END)

\* generatePrompt that returns a text left by an earlier call, if there is one
generatePromptLeftover(c) ==
    IF text # <<>> THEN Return(text)
    ELSE Return(Trim(CollapseNewlines(
                  HandleProof(c, HandleEGov(c, Substituted(c))))))

\* generatePrompt(config): the prompt text, or Thrown
generatePrompt(c) ==
    IF generatePromptThrows(c) THEN Thrown
    ELSE Return(Trim(CollapseNewlines(
                  HandleProof(c, HandleEGov(c, Substituted(c))))))

----------------------------------------------------------------------------
(* Search query generation *)

\* `${config.query || FALLBACK}`
queryOrFallback(c) == OrElse(Get(c, Key.query), <<Phrase.fallbackQuery>>)

\* Line 300: the query with the mandatory keyword
mustQueryNoFallback(c) ==
    Str(<<Phrase.mustKeyword, " ">> \o ToString(Get(c, Key.query))
        \o <<" ", Phrase.guideline, " ", Phrase.latestVersion>>)

mustQuery(c) ==
    Str(<<Phrase.mustKeyword, " ">> \o queryOrFallback(c)
        \o <<" ", Phrase.guideline, " ", Phrase.latestVersion>>)

\* Lines 303-305: the query with the user's search theme
themeQueries(c) ==
    IF Truthy(Get(c, Key.query))
    THEN <<Str(ToString(Get(c, Key.query)) \o <<" ", Phrase.guideline, " ", Phrase.domestic>>)>>
    ELSE <<>>

\* The chip queries with a name that occurred before left out
chipQueriesUnique(c) ==
    LET names == enabledNames(Get(c, Key.keywordChips).v)
        first == SelectSeq([i \in 1..Len(names) |-> i],
                           LAMBDA i : \A j \in 1..(i - 1) : names[j] # names[i])
    IN  Slice([n \in 1..Len(first) |-> names[first[n]]], 0, 5)

\* The chip queries without .slice(0, 5)
chipQueriesUncut(c) == enabledNames(Get(c, Key.keywordChips).v)

\* Lines 308-311: the names of the first five enabled keyword chips
chipQueries(c) == Slice(enabledNames(Get(c, Key.keywordChips).v), 0, 5)

\* The site: queries with || for && in the condition
siteQueriesEitherSwitch(c) ==
    IF Truthy(Get(c, Key.officialDomainPriority)) \/ Truthy(Get(c, Key.siteOperator))
    THEN LET topDomains == Slice(Get(c, Key.priorityDomains).v, 0, 3)
         IN  [i \in 1..Len(topDomains) |->
                Str(<<"s", "i", "t", "e", ":">> \o ToString(topDomains[i])
                    \o <<" ">> \o queryOrFallback(c) \o <<" ", Phrase.guideline>>)]
    ELSE <<>>

\* Lines 314-319: a site: query for each of the first three priority domains
siteQueries(c) ==
    IF Truthy(Get(c, Key.officialDomainPriority)) /\ Truthy(Get(c, Key.siteOperator))
    THEN LET topDomains == Slice(Get(c, Key.priorityDomains).v, 0, 3)
         IN  [i \in 1..Len(topDomains) |->
                Str(<<"s", "i", "t", "e", ":">> \o ToString(topDomains[i])
                    \o <<" ">> \o queryOrFallback(c) \o <<" ", Phrase.guideline>>)]
    ELSE <<>>

generateSearchQueriesThrows(c) ==
    \/ enabledThrows(Get(c, Key.keywordChips))
    \/ /\ Truthy(Get(c, Key.officialDomainPriority))
       /\ Truthy(Get(c, Key.siteOperator))
       /\ ~IsArray(Get(c, Key.priorityDomains))

\* generateSearchQueries with the site: queries pushed before the chips
generateSearchQueriesSitesFirst(c) ==
    IF generateSearchQueriesThrows(c) THEN Thrown
    ELSE Return(Slice(<<mustQuery(c)>> \o themeQueries(c) \o siteQueries(c)
                      \o chipQueries(c), 0, 10))

\* generateSearchQueries(config): the list of queries, or Thrown
generateSearchQueries(c) ==
    IF generateSearchQueriesThrows(c) THEN Thrown
    ELSE Return(Slice(<<mustQuery(c)>> \o themeQueries(c) \o chipQueries(c)
                      \o siteQueries(c), 0, 10))

----------------------------------------------------------------------------
(* JSON.stringify.  A text is quoted with the escapes of QuoteJSONString;  *)
(* with a gap, every element and member is on a line of its own.          *)

ControlChars == {Latin1[i] : i \in 1..32}

\* The unit at p written as it is
QuotedAtRaw(s, p) == <<s[p]>>

\* What QuoteJSONString writes for the unit at p
QuotedAt(s, p) ==
    LET u == s[p]
        fourHex(n) ==
            <<LowerHex[(n \div 4096) + 1], LowerHex[((n \div 256) % 16) + 1],
              LowerHex[((n \div 16) % 16) + 1], LowerHex[(n % 16) + 1]>>
    IN  CASE u = "\"" -> <<"\\", "\"">>
          [] u = "\\" -> <<"\\", "\\">>
          [] u = "<08>" -> <<"\\", "b">>
          [] u = "\t" -> <<"\\", "t">>
          [] u = "\n" -> <<"\\", "n">>
          [] u = "<0C>" -> <<"\\", "f">>
          [] u = "\r" -> <<"\\", "r">>
          [] OTHER -> IF u \in ControlChars \/ LoneSurrogateAt(s, p)
                      THEN <<"\\", "u">> \o fourHex(CodeUnit(u))
                      ELSE <<u>>

Quote(s) == <<"\"">> \o Flatten([p \in 1..Len(s) |-> QuotedAt(s, p)]) \o <<"\"">>

\* SerializeJSONProperty: the text of a value at the indentation `indent`
RECURSIVE Serialize(_, _, _)
Serialize(x, gap, indent) ==
    LET stepback  == indent \o gap
        separator == IF gap = <<>> THEN <<",">> ELSE <<",", "\n">> \o stepback
        open      == IF gap = <<>> THEN <<>> ELSE <<"\n">> \o stepback
        close     == IF gap = <<>> THEN <<>> ELSE <<"\n">> \o indent
        colon     == IF gap = <<>> THEN <<":">> ELSE <<":", " ">>
        kept      == IF x.t = "object"
                     THEN SelectSeq(x.v, LAMBDA m : m.v.t # "undefined")
                     ELSE <<>>
    IN  CASE x.t = "string"  -> Quote(x.v)
          [] x.t = "number"  -> ToString(x)
          [] x.t = "boolean" -> ToString(x)
          [] x.t = "array"   ->
                IF x.v = <<>> THEN <<"[", "]">>
                ELSE <<"[">> \o open
                     \o Join([i \in 1..Len(x.v) |->
                                Serialize(x.v[i], gap, stepback)], separator)
                     \o close \o <<"]">>
          [] x.t = "object"  ->
                IF kept = <<>> THEN <<"{", "}">>
                ELSE <<"{">> \o open
                     \o Join([i \in 1..Len(kept) |->
                                Quote(kept[i].k) \o colon
                                \o Serialize(kept[i].v, gap, stepback)],
                             separator)
                     \o close \o <<"}">>
          [] OTHER           -> <<"n", "u", "l", "l">>

\* JSON.stringify(value, null, space) with space spaces of indentation
Stringify(x, space) == Serialize(x, [i \in 1..space |-> " "], <<>>)

----------------------------------------------------------------------------
(* JSON.parse, by recursive descent.  A parse step gives [ok, v, next]:    *)
(* the value read and the position after it.  Numbers are integers.  A    *)
(* repeated key keeps its first place and takes its last value.           *)

ParseFailure == [ok |-> FALSE, v |-> Undefined, next |-> 0]

Parsed(x, next) == [ok |-> TRUE, v |-> x, next |-> next]

RECURSIVE SkipWhitespace(_, _)
SkipWhitespace(s, p) ==
    IF p <= Len(s) /\ s[p] \in {" ", "\t", "\n", "\r"} THEN SkipWhitespace(s, p + 1) ELSE p

\* s holds the units of word from position p on
StartsWith(s, p, word) ==
    /\ p + Len(word) - 1 <= Len(s)
    /\ SubSeq(s, p, p + Len(word) - 1) = word

\* The characters of a string literal from position p to its closing quote
RECURSIVE ParseChars(_, _)
ParseChars(s, p) ==
    IF p > Len(s) \/ s[p] \in ControlChars THEN ParseFailure
    ELSE IF s[p] = "\"" THEN Parsed(<<>>, p + 1)
    ELSE IF s[p] = "\\"
    THEN IF p + 1 > Len(s) THEN ParseFailure
         ELSE LET e == s[p + 1]
                  simple == CASE e = "\"" -> <<"\"">>
                              [] e = "\\" -> <<"\\">>
                              [] e = "/" -> <<"/">>
                              [] e = "b" -> <<"<08>">>
                              [] e = "f" -> <<"<0C>">>
                              [] e = "n" -> <<"\n">>
                              [] e = "r" -> <<"\r">>
                              [] e = "t" -> <<"\t">>
                              [] OTHER -> <<>>
                  isU == /\ e = "u"
                         /\ p + 5 <= Len(s)
                         /\ \A k \in 2..5 : s[p + k] \in DOMAIN HexTable
                  code == (4096 * HexValue(s[p + 2])) + (256 * HexValue(s[p + 3]))
                          + (16 * HexValue(s[p + 4])) + HexValue(s[p + 5])
                  rest == ParseChars(s, IF isU THEN p + 6 ELSE p + 2)
              IN  IF (simple = <<>> /\ ~isU) \/ ~rest.ok THEN ParseFailure
                  ELSE Parsed((IF isU THEN <<Chr(code)>> ELSE simple) \o rest.v,
                              rest.next)
    ELSE LET rest == ParseChars(s, p + 1)
         IN  IF rest.ok THEN Parsed(<<s[p]>> \o rest.v, rest.next)
             ELSE ParseFailure

IsDigit(u) == u \in {"0", "1", "2", "3", "4", "5", "6", "7", "8", "9"}

RECURSIVE DigitsValue(_, _, _)
DigitsValue(s, from, to) ==
    IF from > to THEN 0
    ELSE (10 * DigitsValue(s, from, to - 1)) + HexValue(s[to])

\* The position after the digits that start at p
RECURSIVE SkipDigits(_, _)
SkipDigits(s, p) ==
    IF p <= Len(s) /\ IsDigit(s[p]) THEN SkipDigits(s, p + 1) ELSE p

\* An integer literal at position p: -? (0 | [1-9][0-9]*)
ParseNumber(s, p) ==
    LET first == IF s[p] = "-" THEN p + 1 ELSE p
        end   == SkipDigits(s, first)
        value == DigitsValue(s, first, end - 1)
    IN  IF end = first \/ (s[first] = "0" /\ end > first + 1) THEN ParseFailure
        ELSE Parsed(Num(IF first = p THEN value ELSE 0 - value), end)

\* The members ms with the member k set to x
Put(ms, k, x) ==
    IF \E i \in 1..Len(ms) : ms[i].k = k
    THEN [i \in 1..Len(ms) |-> IF ms[i].k = k THEN Member(k, x) ELSE ms[i]]
    ELSE Append(ms, Member(k, x))

RECURSIVE ParseValue(_, _)
RECURSIVE ParseElements(_, _, _)
RECURSIVE ParseMembers(_, _, _)

\* The elements of an array from position p, after the elements acc: a
\* value, then whitespace, then "," and more elements, or "]"
ParseElements(s, p, acc) ==
    LET next(e, q) ==
            IF ~e.ok \/ q > Len(s) THEN ParseFailure
            ELSE IF s[q] = "," THEN ParseElements(s, q + 1, Append(acc, e.v))
            ELSE IF s[q] = "]" THEN Parsed(Arr(Append(acc, e.v)), q + 1)
            ELSE ParseFailure
        element(e) == next(e, IF e.ok THEN SkipWhitespace(s, e.next) ELSE 0)
    IN  element(ParseValue(s, p))

\* The members of an object from position p, after the members acc: a
\* quoted key, ":", a value, then "," and more members, or "}"
ParseMembers(s, p, acc) ==
    LET next(key, val, q) ==
            IF ~val.ok \/ q > Len(s) THEN ParseFailure
            ELSE IF s[q] = "," THEN ParseMembers(s, q + 1, Put(acc, key.v, val.v))
            ELSE IF s[q] = "}" THEN Parsed(Obj(Put(acc, key.v, val.v)), q + 1)
            ELSE ParseFailure
        value(key, val) ==
            next(key, val, IF val.ok THEN SkipWhitespace(s, val.next) ELSE 0)
        colon(key, cq) ==
            value(key, IF key.ok /\ cq <= Len(s) /\ s[cq] = ":"
                       THEN ParseValue(s, cq + 1)
                       ELSE ParseFailure)
        name(key) == colon(key, IF key.ok THEN SkipWhitespace(s, key.next) ELSE 0)
        quote(kq) == name(IF kq <= Len(s) /\ s[kq] = "\"" THEN ParseChars(s, kq + 1)
                          ELSE ParseFailure)
    IN  quote(SkipWhitespace(s, p))

\* The value that starts at position p, after whitespace
ParseValue(s, p) ==
    LET q == SkipWhitespace(s, p)
        inner == IF q < Len(s) THEN SkipWhitespace(s, q + 1) ELSE Len(s) + 1
        string(str) == IF str.ok THEN Parsed(Str(str.v), str.next) ELSE ParseFailure
    IN  IF q > Len(s) THEN ParseFailure
        ELSE IF s[q] = "{"
        THEN IF inner <= Len(s) /\ s[inner] = "}" THEN Parsed(Obj(<<>>), inner + 1)
             ELSE ParseMembers(s, q + 1, <<>>)
        ELSE IF s[q] = "["
        THEN IF inner <= Len(s) /\ s[inner] = "]" THEN Parsed(Arr(<<>>), inner + 1)
             ELSE ParseElements(s, q + 1, <<>>)
        ELSE IF s[q] = "\"" THEN string(ParseChars(s, q + 1))
        ELSE IF StartsWith(s, q, <<"t", "r", "u", "e">>) THEN Parsed(Bool(TRUE), q + 4)
        ELSE IF StartsWith(s, q, <<"f", "a", "l", "s", "e">>) THEN Parsed(Bool(FALSE), q + 5)
        ELSE IF StartsWith(s, q, <<"n", "u", "l", "l">>) THEN Parsed(Null, q + 4)
        ELSE IF s[q] = "-" \/ IsDigit(s[q]) THEN ParseNumber(s, q)
        ELSE ParseFailure

\* JSON.parse(text): the value, or Thrown (SyntaxError) when the text is
\* no value or more than a value
JSONparse(s) ==
    LET whole(r) == IF r.ok /\ SkipWhitespace(s, r.next) > Len(s) THEN Return(r.v)
                    ELSE Thrown
    IN  whole(ParseValue(s, 1))

----------------------------------------------------------------------------
(* new URL(url) and searchParams.get(name).  Of the URL parser, the model  *)
(* keeps what decides whether the text is a URL and what its query is:    *)
(* the scheme, the host of an http(s), ws(s) or ftp URL, the query and    *)
(* the fragment.  Hosts are names; ports are digits.                      *)

\* The first position of s that holds a unit of the set, or Len(s) + 1
FirstOf(s, units) ==
    LET at == SelectSeq(Positions(s), LAMBDA p : s[p] \in units)
    IN  IF at = <<>> THEN Len(s) + 1 ELSE at[1]

\* s up to its first unit of the set, and s after it
UpTo(s, units)  == SubSeq(s, 1, FirstOf(s, units) - 1)
After(s, units) == SubSeq(s, FirstOf(s, units) + 1, Len(s))

\* new URL(url): [ok, query]; ok is false when the constructor throws
\* (TypeError), query is the text between the first "?" and the fragment.
\* Leading and trailing C0 controls and spaces are dropped, then every tab
\* and newline; the scheme is a letter followed by letters, digits, "+",
\* "-" and "."; the authority of a special scheme names a host: after the
\* credentials, a non-empty name without forbidden characters, and after
\* it at most a port.
ParseURL(url) ==
    LET isUpper(u) == u \in DOMAIN CodeTable /\ 65 <= CodeUnit(u) /\ CodeUnit(u) <= 90
        isAlpha(u) == \/ isUpper(u)
                      \/ /\ u \in DOMAIN CodeTable
                         /\ 97 <= CodeUnit(u) /\ CodeUnit(u) <= 122
        lower(u) == IF isUpper(u) THEN Chr(CodeUnit(u) + 32) ELSE u
        afterSlashes(hier) ==
            LET at == SelectSeq(Positions(hier), LAMBDA p : hier[p] \notin {"/", "\\"})
            IN  IF at = <<>> THEN <<>> ELSE SubSeq(hier, at[1], Len(hier))
        afterCredentials(authority) ==
            LET ats == SelectSeq(Positions(authority), LAMBDA p : authority[p] = "@")
            IN  IF ats = <<>> THEN authority
                ELSE SubSeq(authority, ats[Len(ats)] + 1, Len(authority))
        forbidden ==
            ControlChars \cup {" ", "#", "/", ":", "<", ">", "?", "@", "[", "\\",
                               "]", "^", "|", "%", "<7F>"}
        input  == SelectSeq(Strip(url, ControlChars \cup {" "}),
                            LAMBDA u : u \notin {"\t", "\n", "\r"})
        colon  == FirstOf(input, {":"})
        scheme == [i \in 1..(colon - 1) |-> lower(input[i])]
        noFrag == UpTo(After(input, {":"}), {"#"})
        authority == UpTo(afterSlashes(UpTo(noFrag, {"?"})), {"/", "\\"})
        hostport  == afterCredentials(authority)
        host   == UpTo(hostport, {":"})
        port   == After(hostport, {":"})
        validAuthority ==
            /\ host # <<>>
            /\ \A i \in 1..Len(host) : host[i] \notin forbidden
            /\ \A i \in 1..Len(port) : IsDigit(port[i])
        special ==
            scheme \in { <<"h", "t", "t", "p">>, <<"h", "t", "t", "p", "s">>,
                         <<"w", "s">>, <<"w", "s", "s">>, <<"f", "t", "p">> }
        validScheme ==
            /\ colon <= Len(input)
            /\ colon > 1
            /\ isAlpha(input[1])
            /\ \A i \in 2..(colon - 1) :
                  isAlpha(input[i]) \/ IsDigit(input[i]) \/ input[i] \in {"+", "-", "."}
    IN  IF validScheme /\ (special => validAuthority)
        THEN [ok |-> TRUE, query |-> After(noFrag, {"?"})]
        ELSE [ok |-> FALSE, query |-> <<>>]

\* application/x-www-form-urlencoded decoding of a name or a value: "+" is
\* a space, %XY is a byte, the bytes are read as UTF-8 and every sequence
\* that is no UTF-8 becomes U+FFFD; a surrogate without partner was written
\* as U+FFFD
FormDecode(s) ==
    LET decodedAt(p) ==
            IF EscapeAt(s, p)
            THEN (IF Absorbed(s, p) THEN <<>>
                  ELSE IF DecodeEscape(s, p).ok THEN DecodeEscape(s, p).v
                  ELSE <<"<U+FFFD>">>)
            ELSE IF InEscape(s, p) THEN <<>>
            ELSE IF s[p] = "+" THEN <<" ">>
            ELSE IF LoneSurrogateAt(s, p) THEN <<"<U+FFFD>">>
            ELSE <<s[p]>>
    IN  Flatten([p \in 1..Len(s) |-> decodedAt(p)])

\* searchParams.get(name): the value of the first pair of that name, or
\* Null; the pairs are the non-empty pieces of the query between "&"
SearchParamsGet(query, name) ==
    LET cuts == <<0>> \o SelectSeq(Positions(query), LAMBDA p : query[p] = "&")
                \o <<Len(query) + 1>>
        split == [i \in 1..(Len(cuts) - 1) |->
                    SubSeq(query, cuts[i] + 1, cuts[i + 1] - 1)]
        pieces == SelectSeq(split, LAMBDA piece : piece # <<>>)
        nameOf(piece)  == FormDecode(SubSeq(piece, 1, FirstOf(piece, {"="}) - 1))
        valueOf(piece) == FormDecode(SubSeq(piece, FirstOf(piece, {"="}) + 1, Len(piece)))
        named == SelectSeq(pieces, LAMBDA piece : nameOf(piece) = name)
    IN  IF named = <<>> THEN Null ELSE Str(valueOf(named[1]))

----------------------------------------------------------------------------
(* Config serialization and share link (lines 329-377) *)

\* configToJSON(config)
configToJSON(c) == Stringify(c, 2)

\* parseConfigJSON without the test for activeTab
parseConfigJSONUnchecked(json) ==
    LET checked(parsed) ==
            IF ~parsed.ok THEN Null
            ELSE IF parsed.v.t \in {"object", "array"} THEN parsed.v
            ELSE Null
    IN  checked(JSONparse(json))

\* parseConfigJSON(json): the parsed value when typeof says it is an object
\* (as it does of an array and of null), it is not null and it has
\* activeTab, which no parsed array has; null otherwise, and when
\* JSON.parse throws
parseConfigJSON(json) ==
    LET checked(parsed) ==
            IF ~parsed.ok THEN Null
            ELSE IF /\ parsed.v.t \in {"object", "array", "null"}
                    /\ parsed.v.t # "null"
                    /\ parsed.v.t = "object" /\ HasKey(parsed.v, Key.activeTab)
            THEN parsed.v
            ELSE Null
    IN  checked(JSONparse(json))

\* JSON.stringify(x) does not raise: x holds no BigInt (a TypeError)
RECURSIVE Serializable(_)
Serializable(x) ==
    /\ x.t # "bigint"
    /\ x.t = "array" => \A i \in 1..Len(x.v) : Serializable(x.v[i])
    /\ x.t = "object" => \A i \in 1..Len(x.v) : Serializable(x.v[i].v)

\* encodeConfigToURL with the JSON text itself as the parameter
encodeConfigToURLPlain(c, baseUrl) ==
    baseUrl \o <<"?", "c", "=">> \o Stringify(c, 0)

\* encodeConfigToURL(config), for the page address baseUrl: the link, or
\* the empty text when encodeURIComponent or btoa throws
encodeConfigToURL(c, baseUrl) ==
    LET link(encoded) ==
            IF encoded.ok THEN baseUrl \o <<"?", "c", "=">> \o encoded.v
            ELSE <<>>
        base64(escaped) == link(IF escaped.ok THEN btoa(escaped.v) ELSE Thrown)
    IN  IF ~Serializable(c) THEN <<>>
        ELSE base64(encodeURIComponent(Stringify(c, 0)))

\* The length a share link may have (url.length > 2000)
LinkLimit == 2000

\* isShareLinkTooLong with >= for >
isShareLinkTooLongFromLimit(c, baseUrl) ==
    Len(encodeConfigToURL(c, baseUrl)) >= LinkLimit

\* isShareLinkTooLong that takes a failed encoding for a link too long
isShareLinkTooLongOrFailed(c, baseUrl) ==
    \/ encodeConfigToURL(c, baseUrl) = <<>>
    \/ Len(encodeConfigToURL(c, baseUrl)) > LinkLimit

\* isShareLinkTooLong(config), for the page address baseUrl
isShareLinkTooLong(c, baseUrl) ==
    Len(encodeConfigToURL(c, baseUrl)) > LinkLimit

\* decodeConfigFromURL without its try/catch
decodeConfigFromURLUncaught(url) ==
    LET parsed(json) ==
            IF json.ok THEN Return(parseConfigJSON(json.v)) ELSE Thrown
        decoded(bytes) ==
            parsed(IF bytes.ok THEN decodeURIComponent(bytes.v) ELSE Thrown)
        param(encoded) ==
            IF Truthy(encoded) THEN decoded(atob(encoded.v)) ELSE Return(Null)
        searched(urlObj) ==
            IF urlObj.ok THEN param(SearchParamsGet(urlObj.query, <<"c">>))
            ELSE Thrown
    IN  searched(ParseURL(url))

\* decodeConfigFromURL(url): the configuration, or null when the text is
\* no URL, the parameter c is missing or empty, atob or decodeURIComponent
\* throws, or parseConfigJSON returns null
decodeConfigFromURL(url) ==
    LET parsed(json) ==
            IF json.ok THEN Return(parseConfigJSON(json.v)) ELSE Return(Null)
        decoded(bytes) ==
            parsed(IF bytes.ok THEN decodeURIComponent(bytes.v) ELSE Thrown)
        param(encoded) ==
            IF Truthy(encoded) THEN decoded(atob(encoded.v)) ELSE Return(Null)
        searched(urlObj) ==
            IF urlObj.ok THEN param(SearchParamsGet(urlObj.query, <<"c">>))
            ELSE Return(Null)
    IN  searched(ParseURL(url))

----------------------------------------------------------------------------
(* Configurations *)

\* An AppConfig with every field of the data model, in declaration order.
AppConfig(dateToday, query, scope, audiences, priorityDomains, keywordChips, customKeywords, excludeKeywords, categories, activeTab, eGovCrossReference, proofMode, officialDomainPriority, siteOperator) ==
    Obj(<< Member(Key.dateToday, Str(dateToday)),
           Member(Key.query, Str(query)),
           Member(Key.scope, Arr(scope)),
           Member(Key.audiences, Arr(audiences)),
           Member(Key.priorityDomains, Arr(priorityDomains)),
           Member(Key.keywordChips, Arr(keywordChips)),
           Member(Key.customKeywords, Arr(customKeywords)),
           Member(Key.excludeKeywords, Arr(excludeKeywords)),
           Member(Key.categories, Arr(categories)),
           Member(Key.activeTab, Str(activeTab)),
           Member(Key.eGovCrossReference, Bool(eGovCrossReference)),
           Member(Key.proofMode, Bool(proofMode)),
           Member(Key.officialDomainPriority, Bool(officialDomainPriority)),
           Member(Key.siteOperator, Bool(siteOperator)) >>)

\* A keyword chip or a category: {name, enabled}
Toggle(name, enabled) ==
    Obj(<<Member(Key.name, Str(name)), Member(Key.enabled, Bool(enabled))>>)

\* Texts of at most n units over a set of units.
RECURSIVE TextsUpTo(_, _)
TextsUpTo(units, n) ==
    IF n = 0 THEN {<<>>}
    ELSE LET shorter == TextsUpTo(units, n - 1)
         IN  shorter \cup {Append(s, u) : s \in shorter, u \in units}

MaxProbeLen == 2

\* What a user may type into a field: ordinary characters, newlines, the
\* characters String.prototype.replace reads in a replacement, and text
\* that spells a marker or a placeholder of the template.
ProbeUnits ==
    {"a", "\n", "$", "&", "'", GRAVE, "[[AUDIENCES_LIST]]",
     PROOF_SECTION_BEGIN, EGOV_SECTION_END}

\* The configuration whose field `slot` holds the text `probe` (as the
\* field's value, or as the first entry of the field's list); the other
\* fields are empty (~rich) or hold ordinary entries, among them a disabled
\* chip, a disabled category and blank keywords (rich).
PromptConfig(slot, probe, rich, eGov, proofMode) ==
    LET at(f, base) == IF slot = f THEN <<Str(probe)>> \o base ELSE base
        tg(f, base) == IF slot = f THEN <<Toggle(probe, TRUE)>> \o base
                       ELSE base
        R(x) == IF rich THEN x ELSE <<>>
    IN  AppConfig(
          IF slot = "dateToday" THEN probe ELSE <<"2", "0", "2", "6">>,
          IF slot = "query" THEN probe ELSE R(<<"q">>),
          at("scope", R(<<Str(<<"s">>), Str(<<"t">>)>>)),
          at("audiences", R(<<Str(<<"u">>)>>)),
          at("priorityDomains", R(<<Str(<<"m">>), Str(<<"p">>)>>)),
          tg("keywordChips", R(<<Toggle(<<"k">>, TRUE), Toggle(<<"j">>, FALSE)>>)),
          at("customKeywords", R(<<Str(<<"c">>), Str(<<" ">>)>>)),
          at("excludeKeywords", R(<<Str(<<"x">>), Str(<<>>)>>)),
          tg("categories", R(<<Toggle(<<"g">>, TRUE), Toggle(<<"h">>, FALSE)>>)),
          <<"t", "a", "b">>, eGov, proofMode, FALSE, FALSE)

PromptConfigs ==
    {PromptConfig(slot, probe, rich, eGov, proofMode) :
        slot \in {"dateToday", "query", "scope", "audiences",
                  "priorityDomains", "keywordChips", "customKeywords"},
        probe \in TextsUpTo(ProbeUnits, MaxProbeLen), rich \in BOOLEAN,
        eGov \in BOOLEAN, proofMode \in BOOLEAN}

----------------------------------------------------------------------------
(* The template engine as the UI drives it: a configuration is in place,   *)
(* and the prompt is generated from it.                                    *)

InitPrompt ==
    /\ config \in PromptConfigs
    /\ text = <<>>
    /\ op = "init"
    /\ out = Return(Undefined)

GeneratePrompt ==
    /\ op = "init"
    /\ op' = "generatePrompt"
    /\ out' = generatePrompt(config)
    /\ UNCHANGED <<config, text>>

NextPrompt == GeneratePrompt

SpecPrompt == InitPrompt /\ [][NextPrompt]_vars

----------------------------------------------------------------------------
(* Claims about the template engine (under SpecPrompt) *)

Units(str) == {str[p] : p \in 1..Len(str)}

\* sub occurs in str as a contiguous run of units
Contains(str, sub) ==
    \E p \in 1..(Len(str) - Len(sub) + 1) :
        SubSeq(str, p, p + Len(sub) - 1) = sub

HasNewlineRun(str) ==
    \E p \in 1..(Len(str) - 2) :
        str[p] = "\n" /\ str[p + 1] = "\n" /\ str[p + 2] = "\n"

\* The text generatePrompt holds before it collapses the blank lines.
BeforeCollapse(c) == HandleProof(c, HandleEGov(c, Substituted(c)))

Generated == op = "generatePrompt" /\ out.ok

\* C3: whatever the configuration, the generated prompt holds none of the
\* four marker texts.
C3_NoMarkerInPrompt ==
    Generated => Units(out.v) \cap Markers = {}

\* C4: the passage between the EGOV markers is in the prompt exactly when
\* eGovCrossReference is true, and both passages between PROOF markers are
\* in it exactly when proofMode is true, whatever the other switch is.
C4_BlocksFollowSwitches ==
    Generated =>
        /\ Passage.eGov \in Units(out.v)
              <=> Get(config, Key.eGovCrossReference).v
        /\ Passage.proofTop \in Units(out.v) <=> Get(config, Key.proofMode).v
        /\ Passage.proofBottom \in Units(out.v) <=> Get(config, Key.proofMode).v

\* C5: the generated prompt holds no run of three newlines.
C5_NoTripleNewline ==
    Generated => ~HasNewlineRun(out.v)

\* C5's case: a prompt was generated from a configuration with a newline in
\* a user field and a removed block, whose text had a run of three or more
\* newlines before the collapse.
C5_Witness ==
    /\ Generated
    /\ HasNewlineRun(BeforeCollapse(config))
    /\ "\n" \in Units(Get(config, Key.query).v)
    /\ ~Get(config, Key.eGovCrossReference).v

\* The nine placeholder tokens of the template
Placeholders ==
    {"[[DATE_TODAY]]", "[[QUERY]]", "[[SCOPE]]", "[[AUDIENCES_LIST]]",
     "[[PRIORITY_DOMAINS_LIST]]", "[[MUST_KEYWORDS_LIST]]",
     "[[OPTIONAL_KEYWORDS_LIST]]", "[[EXCLUDE_KEYWORDS_LIST]]",
     "[[CATEGORIES_LIST]]"}

\* A placeholder stands in str where it stands in the template: after the
\* two units that precede one of its occurrences there
LeftInPlace(str) ==
    \E p \in 3..Len(BASE_TEMPLATE), q \in 3..Len(str) :
        /\ BASE_TEMPLATE[p] \in Placeholders
        /\ str[q] = BASE_TEMPLATE[p]
        /\ str[q - 1] = BASE_TEMPLATE[p - 1]
        /\ str[q - 2] = BASE_TEMPLATE[p - 2]

\* C13: for every configuration, every occurrence of the nine placeholders
\* in the template is replaced by its value; whatever the user's fields
\* hold, the prompt has no placeholder left where the template has one.
C13_NoPlaceholderLeft ==
    Generated => ~LeftInPlace(out.v)

\* str with every occurrence of the token replaced by the value as it is
Literally(str, token, value) ==
    Flatten([p \in 1..Len(str) |-> IF str[p] = token THEN value ELSE <<str[p]>>])

\* C14: for every string value of config.dateToday, generatePrompt replaces
\* each [[DATE_TODAY]] by exactly that string, character for character: the
\* substitution of line 210 reads and rewrites nothing in the value.
C14_DateVerbatim ==
    Generated =>
        LET verbatim(date) ==
                ReplaceAll(BASE_TEMPLATE, "[[DATE_TODAY]]", date)
                    = Literally(BASE_TEMPLATE, "[[DATE_TODAY]]", date)
        IN  verbatim(ToString(Get(config, Key.dateToday)))

\* In str every occurrence of the template passage `anchor` is followed by
\* the separator, the value and a newline, and there is an occurrence
Follows(str, anchor, sep, value) ==
    /\ \E q \in 1..Len(str) : str[q] = anchor
    /\ \A q \in 1..Len(str) :
          str[q] = anchor =>
              /\ q + 2 + Len(value) <= Len(str)
              /\ str[q + 1] = sep
              /\ SubSeq(str, q + 2, q + 1 + Len(value)) = value
              /\ str[q + 2 + Len(value)] = "\n"

\* C15: the value substituted for [[OPTIONAL_KEYWORDS_LIST]] is formatList
\* over the names of the enabled chips in chip order, then the custom
\* keywords that are not blank in entry order; no disabled chip and no
\* blank keyword is in it, and both occurrences get the same value.
C15_OptionalKeywords ==
    Generated =>
        LET chips == Get(config, Key.keywordChips).v
            custom == Get(config, Key.customKeywords).v
            names == [i \in 1..Len(chips) |->
                        IF Get(chips[i], Key.enabled).v
                        THEN <<Get(chips[i], Key.name)>> ELSE <<>>]
            kept == [i \in 1..Len(custom) |->
                        IF Trim(custom[i].v) # <<>> THEN <<custom[i]>> ELSE <<>>]
            both(str, value) ==
                /\ Follows(str, "L86-93", "\n", value)
                /\ Follows(str, "L177", "\n", value)
        IN  both(Substituted(config),
                 formatList(Flatten(names) \o Flatten(kept), <<Phrase.bullet>>))

\* C16: generatePrompt replaces [[SCOPE]] by the sentinel (not specified)
\* exactly when config.scope is the empty list; for a list that is not
\* empty it substitutes the labels joined by the comma, in list order.
C16_ScopeSentinel ==
    Generated =>
        LET scope == Get(config, Key.scope).v
            labels == Join([i \in 1..Len(scope) |-> scope[i].v],
                           <<Phrase.scopeComma>>)
            both(str, value) ==
                /\ Follows(str, "L127", " ", value)
                /\ Follows(str, "L166", " ", value)
        IN  both(Substituted(config),
                 IF scope = <<>> THEN <<Phrase.notSpecified>> ELSE labels)

\* C19: formatList(items, prefix) is prefix + (none) for the empty list,
\* and otherwise the items in input order, each after the prefix, joined
\* by one newline; with the default prefix the result is never empty.
C19_FormatList ==
    Generated =>
        \A f \in {Key.scope, Key.audiences, Key.priorityDomains,
                   Key.customKeywords, Key.excludeKeywords} :
        \A prefix \in {<<Phrase.bullet>>, <<>>, <<"-", " ">>} :
            LET items == Get(config, f).v
                lines == [i \in 1..(2 * Len(items) - 1) |->
                            IF i % 2 = 1 THEN prefix \o items[(i + 1) \div 2].v
                            ELSE <<"\n">>]
                as(result) ==
                    /\ Len(items) = 0 => result = prefix \o <<Phrase.none>>
                    /\ Len(items) > 0 => result = Flatten(lines)
                    /\ prefix = <<Phrase.bullet>> => result # <<>>
            IN  as(formatList(items, prefix))

\* C19's case: the prompt of a configuration with two audiences, the first
\* with a newline in it, and with no priority domain was generated; the
\* lists are two prefixed lines and the line for the empty list.
C19_Witness ==
    /\ Generated
    /\ Get(config, Key.audiences).v = <<Str(<<"a", "\n">>), Str(<<"u">>)>>
    /\ formatList(Get(config, Key.audiences).v, <<Phrase.bullet>>)
          = <<Phrase.bullet, "a", "\n", "\n", Phrase.bullet, "u">>
    /\ Get(config, Key.excludeKeywords).v = <<Str(<<"x">>), Str(<<>>)>>
    /\ Contains(out.v, <<"L168", "\n", Phrase.bullet, "a", "\n", "\n",
                         Phrase.bullet, "u", "\n", "\n", "L171">>)

----------------------------------------------------------------------------
(* The query deriver as the UI drives it *)

MaxChips   == 6
MaxDomains == 4

\* The configuration of the query, the chips switched as `enabled` says
\* and the first nDomains domains; chips 1 and 3 share a name.
QueryConfig(query, enabled, nDomains, officialDomainPriority, siteOperator) ==
    LET chipName == <<"a", "b", "a", "c", "d", "e", "f", "g", "h", "i">>
    IN
    AppConfig(<<"2", "0", "2", "6">>, query, <<>>, <<>>,
              [i \in 1..nDomains |-> Str(<<"d">> \o NatToString(i))],
              [i \in 1..Len(enabled) |-> Toggle(<<chipName[i]>>, enabled[i])],
              <<>>, <<>>, <<>>, <<"t", "a", "b">>, FALSE, FALSE,
              officialDomainPriority, siteOperator)

QueryConfigs ==
    {QueryConfig(query, enabled, nDomains, odp, so) :
        query \in {<<>>, <<"q">>},
        enabled \in UNION {[1..n -> BOOLEAN] : n \in 0..MaxChips},
        nDomains \in 0..MaxDomains,
        odp \in BOOLEAN, so \in BOOLEAN}

InitQueries ==
    /\ config \in QueryConfigs
    /\ text = <<>>
    /\ op = "init"
    /\ out = Return(Undefined)

\* generateSearchQueries with config.keywordChips.splice(5) for
\* .filter(...).slice(0, 5): the configuration loses its chips after the fifth
GenerateSearchQueriesInPlace ==
    /\ op = "init"
    /\ op' = "generateSearchQueries"
    /\ out' = generateSearchQueries(config)
    /\ config' = Obj([i \in 1..Len(config.v) |->
                        IF config.v[i].k = Key.keywordChips
                        THEN Member(Key.keywordChips,
                                    Arr(Slice(config.v[i].v.v, 0, 5)))
                        ELSE config.v[i]])
    /\ UNCHANGED text

GenerateSearchQueries ==
    /\ op = "init"
    /\ op' = "generateSearchQueries"
    /\ out' = generateSearchQueries(config)
    /\ UNCHANGED <<config, text>>

NextQueries == GenerateSearchQueries

SpecQueries == InitQueries /\ [][NextQueries]_vars

----------------------------------------------------------------------------
(* Claims about the query deriver (under SpecQueries) *)

Derived == op = "generateSearchQueries" /\ out.ok

EnabledCount(c) ==
    Len(SelectSeq(Get(c, Key.keywordChips).v, LAMBDA k : Get(k, Key.enabled).v))

\* C6: generateSearchQueries returns at most ten entries.
C6_AtMostTenQueries ==
    Derived => Len(out.v) <= 10

\* C6's case: more than five chips are enabled, more than three domains are
\* listed, every rule applies, and ten entries are returned.
C6_Witness ==
    /\ Derived
    /\ EnabledCount(config) > 5
    /\ Len(Get(config, Key.priorityDomains).v) > 3
    /\ Get(config, Key.query).v # <<>>
    /\ Get(config, Key.officialDomainPriority).v
    /\ Get(config, Key.siteOperator).v
    /\ Len(out.v) = 10

\* C7: the list is not empty and its first entry holds the mandatory
\* keyword and the query, or the fallback term when the query is empty.
C7_FirstQueryMandatory ==
    Derived =>
        /\ Len(out.v) >= 1
        /\ Contains(out.v[1].v, <<Phrase.mustKeyword>>)
        /\ Contains(out.v[1].v,
                    IF Get(config, Key.query).v = <<>> THEN <<Phrase.fallbackQuery>>
                    ELSE Get(config, Key.query).v)

\* C7's case: the queries of a configuration with an empty query, the
\* first of them built on the fallback term.
C7_Witness ==
    /\ Derived
    /\ Get(config, Key.query).v = <<>>
    /\ out.v[1] = Str(<<Phrase.mustKeyword, " ", Phrase.fallbackQuery, " ", Phrase.guideline,
                        " ", Phrase.latestVersion>>)

\* C20: the entries are in rule order: the query with the mandatory
\* keyword, then the query with the user's theme and (domestic), then the
\* chips in chip order, then the site: queries in domain order; what the
\* cap drops is a suffix of that sequence.
C20_RuleOrder ==
    Derived =>
        LET query == Get(config, Key.query).v
            term == IF query = <<>> THEN <<Phrase.fallbackQuery>> ELSE query
            chips == Get(config, Key.keywordChips).v
            domains == Get(config, Key.priorityDomains).v
            on == SelectSeq([i \in 1..Len(chips) |-> i],
                            LAMBDA i : Get(chips[i], Key.enabled).v)
            must == <<Str(<<Phrase.mustKeyword, " ">> \o term
                          \o <<" ", Phrase.guideline, " ", Phrase.latestVersion>>)>>
            theme == IF query = <<>> THEN <<>>
                     ELSE <<Str(query \o <<" ", Phrase.guideline, " ",
                                           Phrase.domestic>>)>>
            named == [n \in 1..(IF Len(on) < 5 THEN Len(on) ELSE 5) |->
                        Get(chips[on[n]], Key.name)]
            sites == IF /\ Get(config, Key.officialDomainPriority).v
                        /\ Get(config, Key.siteOperator).v
                     THEN [n \in 1..(IF Len(domains) < 3 THEN Len(domains) ELSE 3) |->
                             Str(<<"s", "i", "t", "e", ":">> \o domains[n].v
                                 \o <<" ">> \o term \o <<" ", Phrase.guideline>>)]
                     ELSE <<>>
            prefixOf(all) ==
                /\ Len(out.v) <= Len(all)
                /\ out.v = SubSeq(all, 1, Len(out.v))
                /\ Len(out.v) = Len(all) \/ Len(out.v) = 10
        IN  prefixOf(must \o theme \o named \o sites)

\* C20's case: the queries of a configuration with a query, with chips 2
\* and 4 enabled and with two domains for site: queries; the entries are
\* the two queries, the chips b and c, and the sites d1 and d2.
C20_Witness ==
    /\ Derived
    /\ Len(out.v) = 6
    /\ Get(config, Key.query).v = <<"q">>
    /\ out.v[3] = Str(<<"b">>)
    /\ out.v[4] = Str(<<"c">>)
    /\ Contains(out.v[5].v, <<"s", "i", "t", "e", ":", "d", "1">>)
    /\ Contains(out.v[6].v, <<"s", "i", "t", "e", ":", "d", "2">>)

\* An entry of the form site:...
IsSiteQuery(e) ==
    Len(e.v) >= 5 /\ SubSeq(e.v, 1, 5) = <<"s", "i", "t", "e", ":">>

\* The positions of the enabled chips of c, in chip order
EnabledChips(c) ==
    SelectSeq([i \in 1..Len(Get(c, Key.keywordChips).v) |-> i],
              LAMBDA i : Get(Get(c, Key.keywordChips).v[i], Key.enabled).v)

\* C21: the chip entries are the names, as they are and in chip order, of
\* the first five enabled chips: no disabled chip and no enabled chip
\* after the fifth gives an entry, and two enabled chips of one name give
\* two entries.
C21_ChipEntries ==
    Derived =>
        LET chips == Get(config, Key.keywordChips).v
            on == EnabledChips(config)
            n == IF Len(on) < 5 THEN Len(on) ELSE 5
            offset == IF Get(config, Key.query).v = <<>> THEN 1 ELSE 2
            rest == SubSeq(out.v, offset + 1, Len(out.v))
            names == [i \in 1..n |-> Get(chips[on[i]], Key.name)]
        IN  /\ Len(out.v) >= offset + n
            /\ SubSeq(out.v, offset + 1, offset + n) = names
            /\ SelectSeq(rest, LAMBDA e : ~IsSiteQuery(e)) = names

\* C21's case: the queries of a configuration with six chips, all enabled,
\* the first and the third of one name: both are entries, the sixth is none.
C21_Witness ==
    /\ Derived
    /\ Len(EnabledChips(config)) = 6
    /\ Get(config, Key.query).v = <<"q">>
    /\ SubSeq(out.v, 3, 7)
          = <<Str(<<"a">>), Str(<<"b">>), Str(<<"a">>), Str(<<"c">>), Str(<<"d">>)>>
    /\ \A i \in 1..Len(out.v) : out.v[i] # Str(<<"e">>)

C23_LengthBeforeCap ==
    Derived =>
        LET enabled == Len(EnabledChips(config))
            domains == Len(Get(config, Key.priorityDomains).v)
            expected ==
                1 + (IF Get(config, Key.query).v # <<>> THEN 1 ELSE 0)
                  + (IF enabled < 5 THEN enabled ELSE 5)
                  + (IF /\ Get(config, Key.officialDomainPriority).v
                        /\ Get(config, Key.siteOperator).v
                     THEN (IF domains < 3 THEN domains ELSE 3) ELSE 0)
            capped(built) ==
                /\ Len(built) = expected
                /\ Len(built) <= 10
                /\ out.v = built
        IN  capped(<<mustQuery(config)>> \o themeQueries(config)
                   \o chipQueries(config) \o siteQueries(config))

\* C23's case: every rule applies in full (a query, six enabled chips, four
\* domains, both switches) and the list before the slice has ten entries.
C23_Witness ==
    /\ Derived
    /\ Len(EnabledChips(config)) = 6
    /\ Len(Get(config, Key.priorityDomains).v) = 4
    /\ Len(<<mustQuery(config)>> \o themeQueries(config)
           \o chipQueries(config) \o siteQueries(config)) = 10
    /\ Len(out.v) = 10

----------------------------------------------------------------------------
(* The configuration codec as the UI drives it: the configuration in place *)
(* is exported as JSON and read back, or shared as a link and opened.     *)

MaxCodecLen == 2

\* What a user may type into a field: a character encodeURIComponent leaves
\* as it is, two that JSON escapes, a character of two UTF-8 bytes, and the
\* halves of a surrogate pair (four UTF-8 bytes together, a \u escape each
\* on its own).
CodecUnits == {"~", "\"", "\n", "<E9>", "<U+D83D>", "<U+DE00>"}

CodecConfigs ==
    {PromptConfig(slot, probe, TRUE, FALSE, TRUE) :
        slot \in {"dateToday", "audiences"},
        probe \in TextsUpTo(CodecUnits, MaxCodecLen)}

\* window.location.origin + window.location.pathname
BaseUrls == { <<"h", "t", "t", "p", "s", ":", "/", "/", "a", ".", "b", "/">>,
              <<"h", "t", "t", "p", ":", "/", "/", "h", "/", "p">> }

InitCodec ==
    /\ config \in CodecConfigs
    /\ text = <<>>
    /\ op = "init"
    /\ out = Return(Undefined)

ConfigToJSON ==
    /\ op = "init"
    /\ op' = "configToJSON"
    /\ text' = configToJSON(config)
    /\ UNCHANGED <<config, out>>

ParseConfigJSON ==
    /\ op \in {"configToJSON", "text"}
    /\ op' = "parseConfigJSON"
    /\ out' = Return(parseConfigJSON(text))
    /\ UNCHANGED <<config, text>>

EncodeConfigToURL ==
    /\ op = "init"
    /\ op' = "encodeConfigToURL"
    /\ \E baseUrl \in BaseUrls : text' = encodeConfigToURL(config, baseUrl)
    /\ UNCHANGED <<config, out>>

DecodeConfigFromURL ==
    /\ op \in {"encodeConfigToURL", "url"}
    /\ op' = "decodeConfigFromURL"
    /\ out' = decodeConfigFromURL(text)
    /\ UNCHANGED <<config, text>>

NextCodec ==
    \/ ConfigToJSON
    \/ ParseConfigJSON
    \/ EncodeConfigToURL
    \/ DecodeConfigFromURL

SpecCodec == InitCodec /\ [][NextCodec]_vars

----------------------------------------------------------------------------
(* Claims about the round trips (under SpecCodec) *)

\* The text of the field the configuration was built around occurs in it
HoldsText(c, probe) ==
    \/ Get(c, Key.dateToday) = Str(probe)
    \/ Get(c, Key.audiences).v[1] = Str(probe)

\* C1: when encodeConfigToURL(c) is not empty, decodeConfigFromURL of it
\* returns a value equal to c, whatever the string fields of c hold.
C1_LinkRoundTrip ==
    (op = "decodeConfigFromURL" /\ text # <<>>) =>
        (out.ok /\ out.v.t = "object" /\ out.v = config)

\* C2: for a configuration with every field of the data model,
\* parseConfigJSON(configToJSON(c)) is not null and equal to c, every list
\* in the same order.
C2_JsonRoundTrip ==
    op = "parseConfigJSON" =>
        (out.ok /\ out.v.t = "object" /\ out.v = config)

\* C2's case: a configuration with a quote and a newline in the first of
\* two audiences was exported and read back.
C2_Witness ==
    /\ op = "parseConfigJSON"
    /\ HoldsText(config, <<"\"", "\n">>)
    /\ Len(Get(config, Key.audiences).v) = 2
    /\ out.v.t = "object"
    /\ out.v = config

----------------------------------------------------------------------------
(* Sharing as the UI drives it: the link of the configuration in place is  *)
(* measured before it is offered.                                          *)

\* The longest query a user types
MaxPad == 800

\* Configurations whose query is a run of 'a', long enough for links on
\* both sides of the limit, and configurations JSON.stringify raises on:
\* the date, or the first audience, is a BigInt
ShareConfigs ==
    {PromptConfig("query", [i \in 1..n |-> "a"], TRUE, FALSE, TRUE) :
        n \in (MaxPad - 30)..MaxPad}
    \cup LET c == PromptConfig("query", <<"q">>, TRUE, FALSE, TRUE)
         IN  {Obj([i \in 1..Len(c.v) |->
                     IF c.v[i].k = f
                     THEN Member(f, IF c.v[i].v.t = "array"
                                    THEN Arr(<<[t |-> "bigint", v |-> 1]>>)
                                    ELSE [t |-> "bigint", v |-> 1])
                     ELSE c.v[i]]) :
                f \in {Key.dateToday, Key.audiences}}

\* Page addresses of three lengths; with the last a link has a length that
\* is a multiple of four
ShareBaseUrls == BaseUrls \cup {<<"h", "t", "t", "p", ":", "/", "/", "h", "/">>}

InitShare ==
    /\ config \in ShareConfigs
    /\ text = <<>>
    /\ op = "init"
    /\ out = Return(Undefined)

\* text is the local url of isShareLinkTooLong
IsShareLinkTooLong ==
    /\ op = "init"
    /\ op' = "isShareLinkTooLong"
    /\ \E baseUrl \in ShareBaseUrls :
          /\ text' = encodeConfigToURL(config, baseUrl)
          /\ out' = Return(Bool(isShareLinkTooLong(config, baseUrl)))
    /\ UNCHANGED config

NextShare == IsShareLinkTooLong

SpecShare == InitShare /\ [][NextShare]_vars

\* C12: isShareLinkTooLong(c) is true exactly when the link
\* encodeConfigToURL(c) returns has more than 2000 characters; a link of
\* exactly 2000 characters is not too long.
C12_TooLongAbove2000 ==
    op = "isShareLinkTooLong" =>
        /\ out.ok
        /\ out.v.t = "boolean"
        /\ out.v.v <=> Len(text) >= 2001
        /\ Len(text) = 2000 => ~out.v.v
        /\ \/ text = <<>>
           \/ \E baseUrl \in ShareBaseUrls :
                 SubSeq(text, 1, Len(baseUrl) + 3) = baseUrl \o <<"?", "c", "=">>

\* C12's case: a link of exactly 2000 characters was measured and is not
\* too long.
C12_Witness ==
    /\ op = "isShareLinkTooLong"
    /\ Len(text) = 2000
    /\ out = Return(Bool(FALSE))

\* A link of 2001 characters was measured and is too long.
C12_WitnessAbove ==
    /\ op = "isShareLinkTooLong"
    /\ Len(text) = 2001
    /\ out = Return(Bool(TRUE))

\* C24: when encodeConfigToURL fails for a configuration and returns the
\* empty string, isShareLinkTooLong returns false for it.
C24_FailedLinkFits ==
    op = "isShareLinkTooLong" =>
        /\ ~Serializable(config) => text = <<>>
        /\ text = <<>> => out = Return(Bool(FALSE))

\* C24's case: a configuration whose date is a BigInt was measured; the
\* encoding failed and the link is reported as fitting.
C24_Witness ==
    /\ op = "isShareLinkTooLong"
    /\ Get(config, Key.dateToday).t = "bigint"
    /\ text = <<>>
    /\ out = Return(Bool(FALSE))

----------------------------------------------------------------------------
(* Import as the UI drives it: the text of a file is parsed, the value     *)
(* parseConfigJSON returns is taken as the configuration, and the prompt  *)
(* and the queries are generated from it.                                 *)

\* An exported configuration with every field
FullConfig ==
    AppConfig(<<"2", "0", "2", "6">>, <<"q">>, <<Str(<<"s">>)>>,
              <<Str(<<"u">>)>>, <<Str(<<"m">>), Str(<<"p">>)>>,
              <<Toggle(<<"k">>, TRUE), Toggle(<<"j">>, FALSE)>>,
              <<Str(<<"c">>)>>, <<Str(<<"x">>)>>, <<Toggle(<<"g">>, TRUE)>>,
              <<"t", "a", "b">>, TRUE, FALSE, TRUE, TRUE)

\* The object that has activeTab and nothing else
OnlyActiveTab == Obj(<<Member(Key.activeTab, Str(<<"t", "a", "b">>))>>)

\* JSON values that are no object, or have no activeTab
NonConfigs ==
    <<Null, Num(7), Str(Key.activeTab), Bool(TRUE), Arr(<<>>),
      Arr(<<Str(Key.activeTab)>>), Arr(<<OnlyActiveTab>>), Obj(<<>>),
      Obj(<<Member(<<"a">>, OnlyActiveTab)>>)>>

\* The values a file may hold: the export, the export without one of its
\* fields or with one more, the export with a field of a type the data
\* model does not give it, and the values that are no configuration
ImportValues ==
    LET without(k) == Obj(SelectSeq(FullConfig.v, LAMBDA m : m.k # k))
        with(k, x) == Obj(Put(FullConfig.v, k, x))
        partial ==
            [i \in 1..Len(FullConfig.v) |-> without(FullConfig.v[i].k)]
            \o <<OnlyActiveTab, with(<<"x">>, Num(1))>>
        wrong ==
            <<Null, Str(<<"a", "b">>), Num(1), Bool(TRUE), Arr(<<Null>>),
              Arr(<<Num(1)>>), Obj(<<>>)>>
        fields ==
            <<Key.dateToday, Key.query, Key.scope, Key.audiences,
              Key.priorityDomains, Key.keywordChips, Key.customKeywords,
              Key.activeTab>>
        mistyped ==
            [n \in 1..(Len(fields) * Len(wrong)) |->
                with(fields[((n - 1) \div Len(wrong)) + 1],
                     wrong[((n - 1) % Len(wrong)) + 1])]
    IN  <<FullConfig>> \o partial \o mistyped \o NonConfigs

\* JSON.stringify(x, null, space) of the i-th of them
TextOf ==
    [i \in 1..Len(ImportValues), space \in {0, 2} |->
        Stringify(ImportValues[i], space)]

MaxCut == 16

\* Texts that are no JSON: an export cut short, and slips of a hand edit
MalformedTexts ==
    {SubSeq(Stringify(OnlyActiveTab, 0), 1, n) : n \in 0..MaxCut}
    \cup { <<"{", "a", "c", "t", "i", "v", "e", "T", "a", "b", ":", "1", "}">>,
           <<"{", "\"", "a", "\"", ":", "1", ",", "}">>,
           <<"[", "\"", "a", "\"", "]", "]">>,
           <<"'", "a", "'">>,
           <<"\"", "\\", "x", "\"">> }

InitImport ==
    /\ config = Undefined
    /\ text \in {TextOf[i, space] : i \in 1..Len(ImportValues), space \in {0, 2}}
                \cup MalformedTexts
    /\ op = "text"
    /\ out = Return(Undefined)

\* The caller takes the value parseConfigJSON returned as its configuration
UseAsConfig ==
    /\ op = "parseConfigJSON"
    /\ out.v.t # "null"
    /\ op' = "init"
    /\ config' = out.v
    /\ UNCHANGED <<text, out>>

NextImport ==
    \/ ParseConfigJSON
    \/ UseAsConfig
    \/ GeneratePrompt
    \/ GenerateSearchQueries

SpecImport == InitImport /\ [][NextImport]_vars

----------------------------------------------------------------------------
(* Claims about the import (under SpecImport) *)

\* C8: generatePrompt and generateSearchQueries return a result, and do not
\* throw, on every value parseConfigJSON returned as non-null.
C8_NoCoreOperationRaises ==
    op \in {"generatePrompt", "generateSearchQueries"} => out.ok

\* parseConfigJSON is to accept x: an object (no array) that has activeTab
Acceptable(x) == x.t = "object" /\ HasKey(x, Key.activeTab)

\* C9: parseConfigJSON does not throw; it returns null exactly when the text
\* is no JSON, or the parsed value is no object, or it has no activeTab (an
\* array has none); otherwise it returns the parsed value as it is.
C9_ParseConfigJSON ==
    op = "parseConfigJSON" =>
        LET parsed == JSONparse(text)
            accepted == parsed.ok /\ Acceptable(parsed.v)
        IN  /\ out.ok
            /\ out.v.t = "null" <=> ~accepted
            /\ accepted => out.v = parsed.v
            /\ text \in MalformedTexts => out.v.t = "null"
            /\ \A i \in 1..Len(ImportValues), space \in {0, 2} :
                  text = TextOf[i, space] =>
                      IF Acceptable(ImportValues[i])
                      THEN out.v.t = "object" /\ out.v = ImportValues[i]
                      ELSE out.v.t = "null"

\* C9's case: a file that holds an object with activeTab and no other field
\* was parsed, and the object was returned as it is.
C9_Witness ==
    /\ op = "parseConfigJSON"
    /\ text = Stringify(OnlyActiveTab, 2)
    /\ out.v.t = "object"
    /\ out.v = OnlyActiveTab

----------------------------------------------------------------------------
(* Opening a link as the UI drives it: the address is decoded.             *)

\* The parameter encodeConfigToURL writes for a JSON text
Payload(json) == btoa(encodeURIComponent(json).v).v

\* Parameters that decode to an accepted configuration
GoodPayloads ==
    {Payload(Stringify(FullConfig, 0)), Payload(Stringify(OnlyActiveTab, 0))}

\* Parameters whose JSON parseConfigJSON rejects
RejectedPayloads ==
    {Payload(Stringify(NonConfigs[i], 0)) : i \in 1..Len(NonConfigs)}
    \cup {Payload(SubSeq(Stringify(OnlyActiveTab, 0), 1, MaxCut))}

\* Parameters that are base64 of a text that is no percent-encoding
BadPercentPayloads ==
    { btoa(<<"%">>).v, btoa(<<"{", "%", "7">>).v, btoa(<<"%", "z", "z">>).v,
      btoa(<<"%", "E", "3", "%", "8", "1">>).v,
      btoa(<<"%", "C", "0", "%", "8", "0">>).v, btoa(<<"%", "8", "0">>).v }

\* Parameters that are no base64
BadBase64Payloads ==
    { <<"a">>, <<"a", "b", "~", "d">>, <<"a", "b", "c", "d", "e">>,
      <<"a", "=", "b", "c">>, <<"=">>, <<"a", "b", "c", "=", "=">>,
      <<"J", "T", "d", "C", "J", "T", "d", "E", "<E9>">> }

\* Addresses with the parameter c, alone or after another parameter and
\* before a fragment
UrlsOf(payloads) ==
    {baseUrl \o <<"?", "c", "=">> \o payload :
        baseUrl \in BaseUrls, payload \in payloads}
    \cup {baseUrl \o <<"?", "x", "=", "1", "&", "c", "=">> \o payload \o <<"#", "f">> :
            baseUrl \in BaseUrls, payload \in payloads}

\* Texts that are no URL: no scheme, or no host
NotUrls ==
    {<<>>, <<"?", "c", "=">>, <<"h", "t", "t", "p", "s", ":", "/", "/">>}
    \cup {payload : payload \in GoodPayloads}
    \cup {<<"/", "p", "?", "c", "=">> \o payload : payload \in GoodPayloads}
    \cup {<<"a", ".", "b", "/", "?", "c", "=">> \o payload : payload \in GoodPayloads}
    \cup {<<"h", "t", "t", "p", "s", ":", "/", "/", "?", "c", "=">> \o payload :
            payload \in GoodPayloads}

\* URLs without the parameter c, or with an empty one
NoParamUrls ==
    BaseUrls
    \cup {baseUrl \o <<"?", "c", "=">> : baseUrl \in BaseUrls}
    \cup {baseUrl \o <<"?", "c">> : baseUrl \in BaseUrls}
    \cup {baseUrl \o <<"?", "d", "=">> \o payload :
            baseUrl \in BaseUrls, payload \in GoodPayloads}
    \cup {baseUrl \o <<"?", "c", "=", "&", "c", "=">> \o payload :
            baseUrl \in BaseUrls, payload \in GoodPayloads}
    \cup {baseUrl \o <<"#", "?", "c", "=">> \o payload :
            baseUrl \in BaseUrls, payload \in GoodPayloads}

\* The inputs whose processing fails at some stage
FailingUrls ==
    NotUrls \cup NoParamUrls \cup UrlsOf(BadBase64Payloads)
    \cup UrlsOf(BadPercentPayloads) \cup UrlsOf(RejectedPayloads)

InitLink ==
    /\ config = Undefined
    /\ text \in FailingUrls \cup UrlsOf(GoodPayloads)
    /\ op = "url"
    /\ out = Return(Undefined)

NextLink == DecodeConfigFromURL

SpecLink == InitLink /\ [][NextLink]_vars

----------------------------------------------------------------------------
(* Claims about opening a link (under SpecLink) *)

\* C10: decodeConfigFromURL does not throw, and it returns null when the
\* text is no URL, when the URL has no parameter c or an empty one, when the
\* parameter is no base64, when the decoded text is no percent-encoding,
\* and when parseConfigJSON rejects the decoded text.
C10_DecodeFailsToNull ==
    op = "decodeConfigFromURL" =>
        /\ out.ok
        /\ text \in FailingUrls => out.v.t = "null"

\* C10's case: a URL whose parameter is the base64 of a cut-off escape was
\* decoded, and null was returned.
C10_Witness ==
    /\ op = "decodeConfigFromURL"
    /\ text \in UrlsOf(BadPercentPayloads)
    /\ atob(SearchParamsGet(ParseURL(text).query, <<"c">>).v).ok
    /\ out.ok
    /\ out.v.t = "null"
----------------------------------------------------------------------------
(* A session as the UI drives it: the configuration in place changes, and  *)
(* the operations are called again and again, in any order.  What a call  *)
(* left in text and out stays until another call overwrites it.           *)

CallConfigs ==
    { FullConfig,
      PromptConfig("query", <<>>, FALSE, TRUE, FALSE),
      QueryConfig(<<"q">>, <<TRUE, FALSE, TRUE, TRUE, TRUE, TRUE, TRUE>>, 2,
                  TRUE, TRUE) }

InitCalls ==
    /\ config \in CallConfigs
    /\ text = <<>>
    /\ op = "init"
    /\ out = Return(Undefined)

\* The UI puts a configuration in place for the next call
SetConfig ==
    /\ op # "init"
    /\ op' = "init"
    /\ config' \in CallConfigs
    /\ UNCHANGED <<text, out>>

NextCalls ==
    \/ GeneratePrompt
    \/ GenerateSearchQueries
    \/ ConfigToJSON
    \/ EncodeConfigToURL
    \/ IsShareLinkTooLong
    \/ SetConfig

SpecCalls == InitCalls /\ [][NextCalls]_vars

----------------------------------------------------------------------------
(* SettingsProvider.  config is the state cell `settings`, text the        *)
(* argument of the last call (the updates, or the JSON text) and out what  *)
(* the call returned.                                                      *)

\* { ...prev, [section]: updates }
updateSectionWhole(prev, section, updates) ==
    Obj(Put(prev.v, section, updates))

\* { ...prev, [section]: { ...prev[section], ...updates } }, the updater of
\* updateTemplateSettings, updateSearchSettings, updateOutputSettings and
\* updateUISettings.  A spread copies the own enumerable properties of a
\* value: the characters of a string, the elements of an array, nothing of
\* undefined, null, a number or a boolean.  In { ...ms, ...us } a key of ms
\* keeps its place and takes the value us gives it, and the other keys of
\* us follow in their order.
updateSection(prev, section, updates) ==
    LET Spread(x) ==
            CASE x.t = "object" -> x.v
              [] x.t = "string" ->
                    [i \in 1..Len(x.v) |->
                        Member(NatToString(i - 1), Str(<<x.v[i]>>))]
              [] x.t = "array" ->
                    [i \in 1..Len(x.v) |-> Member(NatToString(i - 1), x.v[i])]
              [] OTHER -> <<>>
        Assign(ms, us) ==
            [i \in 1..Len(ms) |->
                IF HasKey(Obj(us), ms[i].k)
                THEN Member(ms[i].k, Get(Obj(us), ms[i].k))
                ELSE ms[i]]
            \o SelectSeq(us, LAMBDA m : ~HasKey(Obj(ms), m.k))
    IN  Obj(Assign(prev.v,
                   <<Member(section,
                            Obj(Assign(Spread(Get(prev, section)),
                                       Spread(updates))))>>))

\* The settings of a first visit: version, then the four sections
DefaultSettings ==
    Obj(<<Member(Key.version, Num(1)),
          Member(Key.template,
                 Obj(<<Member(Key.roleTitle, Str(<<"r">>)),
                       Member(Key.disclaimers, Arr(<<Str(<<"d">>)>>))>>)),
          Member(Key.search,
                 Obj(<<Member(Key.maxResults, Num(20)),
                       Member(Key.useSiteOperator, Bool(TRUE))>>)),
          Member(Key.output, Obj(<<Member(Key.detailLevel, Str(<<"s">>))>>)),
          Member(Key.ui, Obj(<<Member(Key.theme, Str(<<"s">>))>>))>>)

InitSettings ==
    /\ config = DefaultSettings
    /\ text = <<>>
    /\ op = "init"
    /\ out = Return(Undefined)

\* A call of the updater `name` of a section with the updates of a panel:
\* no key, one key, or two
Update(name, section) ==
    LET panel ==
            CASE section = Key.template ->
                    {Obj(<<>>),
                     Obj(<<Member(Key.roleTitle, Str(<<"t">>))>>),
                     Obj(<<Member(Key.disclaimers, Arr(<<>>)),
                           Member(Key.roleTitle, Str(<<"r">>))>>)}
              [] section = Key.search ->
                    {Obj(<<Member(Key.maxResults, Num(50))>>),
                     Obj(<<Member(Key.useSiteOperator, Bool(FALSE)),
                           Member(Key.maxResults, Num(20))>>)}
              [] section = Key.output ->
                    {Obj(<<Member(Key.detailLevel, Str(<<"d">>))>>)}
              [] OTHER ->
                    {Obj(<<Member(Key.theme, Str(<<"d">>))>>)}
    IN  /\ op' = name
        /\ \E updates \in panel :
            /\ text' = updates
            /\ config' = updateSection(config, section, updates)
        /\ out' = Return(Undefined)

\* importSettings without the test for 'template'
ImportSettingsAnyObject ==
    LET call(json, parsed) ==
            /\ text' = json
            /\ IF parsed.ok /\ Truthy(parsed.v) /\ parsed.v.t \in {"object", "array"}
               THEN config' = parsed.v /\ out' = Return(Bool(TRUE))
               ELSE config' = config /\ out' = Return(Bool(FALSE))
    IN  /\ op' = "importSettings"
        /\ \E json \in {Stringify(x, 2) : x \in {DefaultSettings, Obj(<<>>), Null}} :
            call(json, JSONparse(json))

\* importSettings(json) with the text of a file: an export, files a hand
\* has edited (sections missing, sections that are no object, no template),
\* values that are no object, and texts that are no JSON.  typeof says
\* 'object' of an object, an array and null; no parsed array has
\* 'template'; a SyntaxError of JSON.parse is caught.
ImportSettings ==
    LET values ==
            {DefaultSettings,
             Obj(<<Member(Key.template, Null), Member(Key.search, Num(1))>>),
             Obj(<<Member(Key.version, Num(1))>>),
             Obj(<<>>),
             Arr(<<Str(Key.template)>>),
             Arr(<<Obj(<<Member(Key.template, Null)>>)>>),
             Str(Key.template), Null, Num(1)}
        texts ==
            {Stringify(x, 2) : x \in values}
            \cup {SubSeq(Stringify(Obj(<<Member(Key.template, Null)>>), 0), 1, n) :
                    n \in {0, 12}}
            \cup { <<"{", "t", "e", "m", "p", "l", "a", "t", "e", ":", "1", "}">> }
        call(json, parsed) ==
            /\ text' = json
            /\ IF /\ parsed.ok
                  /\ Truthy(parsed.v)
                  /\ parsed.v.t \in {"object", "array", "null"}
                  /\ parsed.v.t = "object" /\ HasKey(parsed.v, Key.template)
               THEN config' = parsed.v /\ out' = Return(Bool(TRUE))
               ELSE config' = config /\ out' = Return(Bool(FALSE))
    IN  /\ op' = "importSettings"
        /\ \E json \in texts : call(json, JSONparse(json))

NextSettings ==
    \/ Update("updateTemplateSettings", Key.template)
    \/ Update("updateSearchSettings", Key.search)
    \/ Update("updateOutputSettings", Key.output)
    \/ Update("updateUISettings", Key.ui)
    \/ ImportSettings

SpecSettings == InitSettings /\ [][NextSettings]_vars

----------------------------------------------------------------------------
(* Claims about SettingsProvider (under SpecSettings) *)

\* The section an updater writes
SectionOf ==
    [updateTemplateSettings |-> Key.template,
     updateSearchSettings |-> Key.search,
     updateOutputSettings |-> Key.output,
     updateUISettings |-> Key.ui]

\* The keys of the members ms
KeysOf(ms) == {ms[i].k : i \in 1..Len(ms)}

\* x and y have the same value under every key of the set
SameUnder(x, y, keys) ==
    \A k \in keys : HasKey(x, k) = HasKey(y, k) /\ Get(x, k) = Get(y, k)

\* C25: a call of updateTemplateSettings, updateSearchSettings,
\* updateOutputSettings or updateUISettings leaves the top-level fields and
\* the other three sections of settings as they were, leaves every key of
\* its own section that the updates do not name as it was, and gives every
\* key the updates name the value they give it; as every call keeps what
\* the calls before it wrote elsewhere, updates in sequence accumulate.
\* (A section that is missing, null or a number has no key.)
C25_UpdatesStayInside ==
    [][\A name \in DOMAIN SectionOf :
        op' = name =>
            LET inside(before, after) ==
                    /\ after.t = "object"
                    /\ KeysOf(after.v) = KeysOf(before.v) \cup KeysOf(text'.v)
                    /\ SameUnder(after, before, KeysOf(after.v) \ KeysOf(text'.v))
                    /\ SameUnder(after, text', KeysOf(text'.v))
                section(x) == IF x.t = "object" THEN x ELSE Obj(<<>>)
            IN  /\ SameUnder(config', config,
                             (KeysOf(config.v) \cup KeysOf(config'.v))
                                \ {SectionOf[name]})
                /\ inside(section(Get(config, SectionOf[name])),
                          Get(config', SectionOf[name]))]_vars

\* After updates of two sections, the second has kept the change of the
\* first: the template has the new title and the search the new maximum.
C25_Witness ==
    /\ op = "updateSearchSettings"
    /\ Get(Get(config, Key.template), Key.roleTitle) = Str(<<"t">>)
    /\ Get(Get(config, Key.template), Key.disclaimers) = Arr(<<Str(<<"d">>)>>)
    /\ Get(Get(config, Key.search), Key.maxResults) = Num(50)
    /\ Get(Get(config, Key.search), Key.useSiteOperator) = Bool(TRUE)
    /\ Get(config, Key.version) = Num(1)

\* C26: importSettings returns true or false and never raises; when the
\* text is no JSON, or its value is no object, or the object has no
\* 'template', it returns false and settings is what it was; otherwise it
\* returns true and settings is the parsed value.
C26_ImportSettings ==
    [][op' = "importSettings" =>
        LET settled(parsed) ==
                IF parsed.ok /\ parsed.v.t = "object" /\ HasKey(parsed.v, Key.template)
                THEN out' = Return(Bool(TRUE)) /\ config' = parsed.v
                ELSE out' = Return(Bool(FALSE)) /\ config' = config
        IN  out'.ok /\ settled(JSONparse(text'))]_vars

\* A text that is an array holding an object with 'template' was refused,
\* after an import that was accepted and changed settings.
C26_Witness ==
    /\ op = "importSettings"
    /\ text = Stringify(Arr(<<Obj(<<Member(Key.template, Null)>>)>>), 2)
    /\ out = Return(Bool(FALSE))
    /\ config # DefaultSettings
    /\ HasKey(config, Key.template)

----------------------------------------------------------------------------
(* The Settings page.  config is the record of the page's state cells,    *)
(* text the text a call was given (the typed value, the domain, the       *)
(* preset id, the text of the file; empty when the call has none) and out *)
(* what the call returned.  Every handler is a step of its own: React     *)
(* renders between two events, so a handler reads the cells the one       *)
(* before it wrote.  A handler may be called in every state, also when    *)
(* the dialog that shows its button is closed.                            *)

MaxPresets == 2

\* What the page imports from lib/presets: one built-in preset and two
\* default domains stand for the lists
Presets ==
    [TAB_PRESETS |->
        <<Obj(<<Member(Key.id, Str(<<"t">>)),
                Member(Key.name, Str(<<"T">>)),
                Member(Key.categories, Arr(<<Str(<<"g">>), Str(<<"h">>)>>)),
                Member(Key.keywordChips, Arr(<<Str(<<"k">>)>>))>>)>>,
     DEFAULT_PRIORITY_DOMAINS |-> <<Str(<<"m", ".", "j">>), Str(<<"p", ".", "j">>)>>]

\* The cells after the first render.  The custom lists are what
\* localStorage holds: nothing on a first visit; the presets may be those
\* of an earlier import, here two with one id and one with an empty id.
InitPage ==
    LET stored(id, name) ==
            Obj(<<Member(Key.id, Str(id)), Member(Key.name, Str(name)),
                  Member(Key.categories, Arr(<<>>)),
                  Member(Key.keywordChips, Arr(<<>>))>>)
    IN
    /\ config \in
        {[extendedSettings |-> DefaultSettings,
          customPresets |-> presets,
          customDomains |-> Arr(<<>>),
          customScopes |-> Arr(<<>>),
          customAudiences |-> Arr(<<>>),
          editingPreset |-> Null,
          isNewPreset |-> FALSE,
          deleteConfirmOpen |-> FALSE,
          presetToDelete |-> Null,
          resetConfirmOpen |-> FALSE,
          presetForm |-> [id |-> <<>>, name |-> <<>>, categories |-> <<>>,
                          keywordChips |-> <<>>],
          newDomain |-> <<>>] :
            presets \in {Arr(<<>>),
                         Arr(<<stored(<<"d">>, <<"x">>), stored(<<"d">>, <<"y">>),
                               stored(<<>>, <<"z">>)>>)}}
    /\ text = <<>>
    /\ op = "init"
    /\ out = Return(Undefined)

\* onChange of an input: the typed value becomes the cell, or the field of
\* presetForm
OnChange(field, values) ==
    /\ op' = "onChange"
    /\ \E value \in values :
        /\ text' = value
        /\ config' =
            IF field = "newDomain" THEN [config EXCEPT !.newDomain = value]
            ELSE [config EXCEPT !.presetForm[field] = value]
    /\ out' = Return(Undefined)

\* handleAddDomain without the test for a domain that is already listed
HandleAddDomainUnchecked ==
    LET domain == Trim(config.newDomain)
    IN  /\ op' = "handleAddDomain"
        /\ text' = <<>>
        /\ config' =
            IF domain = <<>> THEN config
            ELSE [config EXCEPT
                    !.customDomains = Arr(Append(config.customDomains.v, Str(domain))),
                    !.newDomain = <<>>]
        /\ out' = Return(Undefined)

HandleAddDomain ==
    LET toLowerCase(s) ==
            [i \in 1..Len(s) |->
                IF /\ s[i] \in DOMAIN CodeTable
                   /\ 65 <= CodeUnit(s[i]) /\ CodeUnit(s[i]) <= 90
                THEN Chr(CodeUnit(s[i]) + 32) ELSE s[i]]
        includes(xs, x) == \E i \in 1..Len(xs) : xs[i] = x
        add(domain, allDomains) ==
            IF domain = <<>> THEN config
            ELSE IF includes(allDomains, Str(domain)) THEN config
            ELSE [config EXCEPT
                    !.customDomains = Arr(Append(config.customDomains.v, Str(domain))),
                    !.newDomain = <<>>]
    IN  /\ op' = "handleAddDomain"
        /\ text' = <<>>
        /\ config' = add(toLowerCase(Trim(config.newDomain)),
                         Presets.DEFAULT_PRIORITY_DOMAINS \o config.customDomains.v)
        /\ out' = Return(Undefined)

\* handleRemoveDomain(domain), with a domain of the list or a default one
HandleRemoveDomain ==
    LET includes(xs, x) == \E i \in 1..Len(xs) : xs[i] = x
        allDomains == Presets.DEFAULT_PRIORITY_DOMAINS \o config.customDomains.v
    IN  /\ op' = "handleRemoveDomain"
        /\ \E n \in 1..Len(allDomains) :
            /\ text' = allDomains[n].v
            /\ config' =
                IF includes(Presets.DEFAULT_PRIORITY_DOMAINS, allDomains[n])
                THEN config
                ELSE [config EXCEPT
                        !.customDomains =
                            Arr(SelectSeq(config.customDomains.v,
                                          LAMBDA d : d # allDomains[n]))]
        /\ out' = Return(Undefined)

HandleResetAll ==
    /\ op' = "handleResetAll"
    /\ text' = <<>>
    /\ config' = [config EXCEPT
                    !.extendedSettings = DefaultSettings,
                    !.customPresets = Arr(<<>>),
                    !.customDomains = Arr(<<>>),
                    !.customScopes = Arr(<<>>),
                    !.customAudiences = Arr(<<>>),
                    !.resetConfirmOpen = FALSE]
    /\ out' = Return(Undefined)

\* handleImportSettings that takes the settings of a file of any version
HandleImportSettingsAnyVersion ==
    /\ op' = "handleImportSettings"
    /\ \E data \in {Obj(<<Member(Key.version, Num(1)),
                         Member(Key.extendedSettings, Obj(<<>>))>>)} :
        /\ text' = Stringify(data, 2)
        /\ config' = [config EXCEPT !.extendedSettings = Get(data, Key.extendedSettings)]
    /\ out' = Return(Undefined)

\* handleImportSettings, once the file is chosen and read: an export, a
\* file of another version, files with parts that are missing or falsy,
\* values that are no object, and a text that is no JSON.  A property of
\* a number or a string that is not there is undefined; reading a
\* property of null raises a TypeError, which is caught like the
\* SyntaxError of JSON.parse.
HandleImportSettings ==
    LET settings == updateSection(DefaultSettings, Key.ui,
                                  Obj(<<Member(Key.theme, Str(<<"d">>))>>))
        preset == Obj(<<Member(Key.id, Str(<<"c">>)), Member(Key.name, Str(<<"n">>)),
                        Member(Key.categories, Arr(<<>>)),
                        Member(Key.keywordChips, Arr(<<>>))>>)
        export ==
            Obj(<<Member(Key.version, Num(2)),
                  Member(Key.extendedSettings, settings),
                  Member(Key.customPresets, Arr(<<preset>>)),
                  Member(Key.customDomains, Arr(<<Str(<<"a", ".", "b">>)>>)),
                  Member(Key.customScopes, Arr(<<Str(<<"s">>)>>)),
                  Member(Key.customAudiences, Arr(<<Str(<<"u">>)>>))>>)
        files ==
            {export,
             Obj(<<Member(Key.version, Num(1)),
                   Member(Key.extendedSettings, settings),
                   Member(Key.customDomains, Arr(<<Str(<<"a", ".", "b">>)>>))>>),
             Obj(<<Member(Key.version, Str(<<"2">>)),
                   Member(Key.extendedSettings, settings),
                   Member(Key.customPresets, Arr(<<>>))>>),
             Obj(<<Member(Key.version, Num(2)),
                   Member(Key.extendedSettings, Null),
                   Member(Key.customPresets, Str(<<>>)),
                   Member(Key.customDomains, Num(0)),
                   Member(Key.customScopes, Bool(FALSE)),
                   Member(Key.customAudiences, Null)>>),
             Arr(<<export>>), Num(2), Null}
        texts ==
            {Stringify(x, 2) : x \in files}
            \cup {SubSeq(Stringify(export, 0), 1, 30)}
        part(data, guard, key, before) ==
            IF guard /\ Truthy(Get(data, key)) THEN Get(data, key) ELSE before
        load(data) ==
            [config EXCEPT
                !.extendedSettings =
                    part(data, Get(data, Key.version) = Num(2),
                         Key.extendedSettings, @),
                !.customPresets = part(data, TRUE, Key.customPresets, @),
                !.customDomains = part(data, TRUE, Key.customDomains, @),
                !.customScopes = part(data, TRUE, Key.customScopes, @),
                !.customAudiences = part(data, TRUE, Key.customAudiences, @)]
        read(parsed) ==
            IF ~parsed.ok \/ Nullish(parsed.v) THEN config ELSE load(parsed.v)
    IN  /\ op' = "handleImportSettings"
        /\ \E file \in texts :
            /\ text' = file
            /\ config' = read(JSONparse(file))
        /\ out' = Return(Undefined)

\* The domains the field is given: blanks, a new domain in capitals and
\* with spaces around it, the same in small letters, another, and a
\* default domain in capitals
SpecDomains ==
    InitPage /\ [][\/ OnChange("newDomain",
                               { <<" ">>, <<" ", "A", ".", "B", " ">>,
                                 <<"a", ".", "b">>, <<"c">>, <<"M", ".", "j">> })
                   \/ HandleAddDomain
                   \/ HandleRemoveDomain
                   \/ HandleResetAll
                   \/ HandleImportSettings]_vars

----------------------------------------------------------------------------
(* Claims about the domains and the import of the Settings page (under    *)
(* SpecDomains)                                                           *)

\* A list of domains without a duplicate, a blank entry or a default domain
Clean(domains) ==
    /\ \A i, j \in 1..Len(domains) : domains[i] = domains[j] => i = j
    /\ \A i \in 1..Len(domains) :
        /\ Trim(domains[i].v) # <<>>
        /\ \A n \in 1..Len(Presets.DEFAULT_PRIORITY_DOMAINS) :
            domains[i] # Presets.DEFAULT_PRIORITY_DOMAINS[n]

\* C27: the custom-domain list is empty at the start, and a call of
\* handleAddDomain, handleRemoveDomain or handleResetAll on a list without
\* a duplicate, a blank entry or a default domain leaves such a list, so
\* that every sequence of the three from the empty list does;
\* handleRemoveDomain with a default domain changes no cell.
C27_DomainsStayClean ==
    /\ InitPage => Clean(config.customDomains.v)
    /\ [][/\ /\ op' \in {"handleAddDomain", "handleRemoveDomain", "handleResetAll"}
             /\ Clean(config.customDomains.v)
             => Clean(config'.customDomains.v)
          /\ /\ op' = "handleRemoveDomain"
             /\ \E n \in 1..Len(Presets.DEFAULT_PRIORITY_DOMAINS) :
                    text' = Presets.DEFAULT_PRIORITY_DOMAINS[n].v
             => config' = config]_vars

\* handleAddDomain was called with the domain of the list typed in
\* capitals, and refused it: the field still holds it, the list has the
\* domain once and, after it, another.
C27_Witness ==
    /\ op = "handleAddDomain"
    /\ config.newDomain = <<" ", "A", ".", "B", " ">>
    /\ config.customDomains = Arr(<<Str(<<"a", ".", "b">>), Str(<<"c">>)>>)

\* C30: handleImportSettings with a text that is no JSON changes none of
\* extendedSettings, customPresets, customDomains, customScopes and
\* customAudiences; with a JSON text, extendedSettings is as before unless
\* version is 2 and the key is there, and each custom list is as before
\* unless its key is there with a truthy value; a part that is replaced
\* is the value of the file.
C30_ImportGuards ==
    [][op' = "handleImportSettings" =>
        LET has(data, key) == data.t = "object" /\ HasKey(data, key)
            kept(data, guard, key, before, after) ==
                /\ ~(guard /\ has(data, key)) => after = before
                /\ after # before => after = Get(data, key)
            guarded(data) ==
                /\ kept(data, Get(data, Key.version) = Num(2), Key.extendedSettings,
                        config.extendedSettings, config'.extendedSettings)
                /\ kept(data, Truthy(Get(data, Key.customPresets)), Key.customPresets,
                        config.customPresets, config'.customPresets)
                /\ kept(data, Truthy(Get(data, Key.customDomains)), Key.customDomains,
                        config.customDomains, config'.customDomains)
                /\ kept(data, Truthy(Get(data, Key.customScopes)), Key.customScopes,
                        config.customScopes, config'.customScopes)
                /\ kept(data, Truthy(Get(data, Key.customAudiences)),
                        Key.customAudiences,
                        config.customAudiences, config'.customAudiences)
            settled(parsed) ==
                IF ~parsed.ok THEN config' = config
                ELSE IF Nullish(parsed.v) THEN config' = config
                ELSE guarded(parsed.v)
        IN  settled(JSONparse(text'))]_vars

\* A file of version 1 with extendedSettings and customDomains was
\* imported: the domains are those of the file, the settings are the
\* default ones and not those of the file.
C30_Witness ==
    /\ op = "handleImportSettings"
    /\ JSONparse(text).ok
    /\ Get(JSONparse(text).v, Key.version) = Num(1)
    /\ Truthy(Get(JSONparse(text).v, Key.extendedSettings))
    /\ config.extendedSettings = DefaultSettings
    /\ config.extendedSettings # Get(JSONparse(text).v, Key.extendedSettings)
    /\ config.customDomains = Get(JSONparse(text).v, Key.customDomains)
    /\ config.customDomains # Arr(<<>>)

----------------------------------------------------------------------------
(* The presets of the Settings page *)

\* handleEditPreset(preset), with a built-in preset or a custom one
HandleEditPreset ==
    LET allPresets == Presets.TAB_PRESETS \o config.customPresets.v
        joined(list) == Join([i \in 1..Len(list.v) |-> list.v[i].v], <<"\n">>)
        edit(preset) ==
            [config EXCEPT
                !.editingPreset = preset,
                !.isNewPreset = FALSE,
                !.presetForm =
                    [id |-> Get(preset, Key.id).v,
                     name |-> Get(preset, Key.name).v,
                     categories |-> joined(Get(preset, Key.categories)),
                     keywordChips |-> joined(Get(preset, Key.keywordChips))]]
    IN  /\ op' = "handleEditPreset"
        /\ text' = <<>>
        /\ \E n \in 1..Len(allPresets) : config' = edit(allPresets[n])
        /\ out' = Return(Undefined)

\* handleNewPreset: Date.now() is read twice, and the clock may have moved
\* on between the two
HandleNewPreset ==
    LET custom(now) == <<"c", "u", "s", "t", "o", "m", "-">> \o NatToString(now)
    IN  /\ op' = "handleNewPreset"
        /\ text' = <<>>
        /\ \E now \in 1..MaxPresets, then \in 1..MaxPresets :
            /\ now <= then
            /\ config' =
                [config EXCEPT
                    !.editingPreset =
                        Obj(<<Member(Key.id, Str(custom(now))),
                              Member(Key.name, Str(<<>>)),
                              Member(Key.categories, Arr(<<>>)),
                              Member(Key.keywordChips, Arr(<<>>))>>),
                    !.isNewPreset = TRUE,
                    !.presetForm =
                        [id |-> custom(then), name |-> <<>>,
                         categories |-> <<>>, keywordChips |-> <<>>]]
        /\ out' = Return(Undefined)

\* handleSavePreset.  The list takes at most MaxPresets presets: a save
\* that would append to a full list is left out.
HandleSavePreset ==
    LET custom(now) == <<"c", "u", "s", "t", "o", "m", "-">> \o NatToString(now)
        lines(s) ==
            LET breaks(at) ==
                    [i \in 1..(Len(at) - 1) |->
                        Str(Trim(SubSeq(s, at[i] + 1, at[i + 1] - 1)))]
            IN  SelectSeq(breaks(<<0>>
                                 \o SelectSeq(Positions(s), LAMBDA p : s[p] = "\n")
                                 \o <<Len(s) + 1>>),
                          LAMBDA line : Truthy(line))
        newPreset(id) ==
            Obj(<<Member(Key.id, Str(id)),
                  Member(Key.name, Str(Trim(config.presetForm.name))),
                  Member(Key.categories, Arr(lines(config.presetForm.categories))),
                  Member(Key.keywordChips,
                         Arr(lines(config.presetForm.keywordChips)))>>)
        saved(list) ==
            [config EXCEPT !.customPresets = Arr(list), !.editingPreset = Null]
        isCustom ==
            \E i \in 1..Len(config.customPresets.v) :
                Get(config.customPresets.v[i], Key.id) = Str(config.presetForm.id)
    IN  /\ op' = "handleSavePreset"
        /\ text' = <<>>
        /\ IF Trim(config.presetForm.name) = <<>> THEN config' = config
           ELSE IF config.isNewPreset
           THEN /\ Len(config.customPresets.v) < MaxPresets
                /\ config' = saved(Append(config.customPresets.v,
                                          newPreset(config.presetForm.id)))
           ELSE IF isCustom
           THEN config' =
                    saved([i \in 1..Len(config.customPresets.v) |->
                            IF Get(config.customPresets.v[i], Key.id)
                                = Str(config.presetForm.id)
                            THEN newPreset(config.presetForm.id)
                            ELSE config.customPresets.v[i]])
           ELSE /\ Len(config.customPresets.v) < MaxPresets
                /\ \E now \in 1..MaxPresets :
                    config' = saved(Append(config.customPresets.v,
                                           newPreset(custom(now))))
        /\ out' = Return(Undefined)

\* handleDeletePreset(preset.id), with a custom preset
HandleDeletePreset ==
    /\ op' = "handleDeletePreset"
    /\ \E n \in 1..Len(config.customPresets.v) :
        /\ text' = Get(config.customPresets.v[n], Key.id).v
        /\ config' = [config EXCEPT
                        !.presetToDelete = Get(config.customPresets.v[n], Key.id),
                        !.deleteConfirmOpen = TRUE]
    /\ out' = Return(Undefined)

ConfirmDeletePreset ==
    /\ op' = "confirmDeletePreset"
    /\ text' = <<>>
    /\ config' =
        [config EXCEPT
            !.customPresets =
                IF Truthy(config.presetToDelete)
                THEN Arr(SelectSeq(@.v, LAMBDA p :
                            Get(p, Key.id) # config.presetToDelete))
                ELSE @,
            !.deleteConfirmOpen = FALSE,
            !.presetToDelete = Null]
    /\ out' = Return(Undefined)

\* The form is given a blank name or a name with a space before it, and
\* categories on lines with spaces and an empty line
SpecPresets ==
    InitPage /\ [][\/ OnChange("name", { <<" ">>, <<" ", "n">> })
                   \/ OnChange("categories", { <<" ", "a", "\n", " ", "\n", "b">> })
                   \/ HandleEditPreset
                   \/ HandleNewPreset
                   \/ HandleSavePreset
                   \/ HandleDeletePreset
                   \/ ConfirmDeletePreset]_vars

----------------------------------------------------------------------------
(* Claims about the presets of the Settings page (under SpecPresets) *)

\* The cells of the page other than those of the set are as they were
OtherCellsKept(cells) ==
    \A cell \in DOMAIN config \ cells : config'[cell] = config[cell]

\* C28: handleDeletePreset(id) leaves customPresets as it is, records the
\* id and opens the confirmation dialog, and changes nothing else;
\* confirmDeletePreset then removes the presets that have the recorded id
\* and no other, and always leaves the dialog closed and presetToDelete
\* null, so that a second confirmDeletePreset removes nothing.
C28_TwoStepDelete ==
    [][/\ op' = "handleDeletePreset" =>
            /\ config'.presetToDelete = Str(text')
            /\ config'.deleteConfirmOpen
            /\ OtherCellsKept({"presetToDelete", "deleteConfirmOpen"})
       /\ op' = "confirmDeletePreset" =>
            /\ config'.customPresets =
                Arr(SelectSeq(config.customPresets.v,
                              LAMBDA p : Get(p, Key.id) # config.presetToDelete))
            /\ ~config'.deleteConfirmOpen
            /\ config'.presetToDelete = Null
            /\ OtherCellsKept({"customPresets", "presetToDelete",
                               "deleteConfirmOpen"})]_vars

\* The presets of the second list that are not those of the first, by place
Changed(before, after) ==
    {i \in 1..Len(after) : i > Len(before) \/ after[i] # before[i]}

\* C29: handleSavePreset with a blank name changes no cell, so the dialog
\* stays open.  With a name it closes the dialog, and of the custom
\* presets it changes one place of the list and no other: for a new preset
\* it appends an entry; for the id of a custom preset it replaces that
\* entry where it stands, the list keeping its length; for the id of a
\* built-in preset it appends an entry whose id begins with 'custom-'.
\* The built-in presets are a constant of the model.
C29_SavePreset ==
    [][op' = "handleSavePreset" =>
        LET before == config.customPresets.v
            after == config'.customPresets.v
            ids(list) == {Get(list[i], Key.id) : i \in 1..Len(list)}
            custom == <<"c", "u", "s", "t", "o", "m", "-">>
        IN  IF Trim(config.presetForm.name) = <<>> THEN config' = config
            ELSE /\ config'.editingPreset = Null
                 /\ OtherCellsKept({"customPresets", "editingPreset"})
                 /\ Cardinality(Changed(before, after)) <= 1
                 /\ \A i \in 1..Len(before) :
                        i \notin Changed(before, after) => after[i] = before[i]
                 /\ IF config.isNewPreset
                    THEN Len(after) = Len(before) + 1
                    ELSE IF Str(config.presetForm.id) \in ids(before)
                    THEN Len(after) = Len(before)
                    ELSE IF Str(config.presetForm.id) \in ids(Presets.TAB_PRESETS)
                    THEN /\ Len(after) = Len(before) + 1
                         /\ SubSeq(Get(after[Len(after)], Key.id).v, 1, Len(custom))
                                = custom
                    ELSE TRUE]_vars

====
